---------------------------- MODULE Spec2Model ----------------------------
(***************************************************************************)
(* A model of trotd: the TTL cache (src/src/cache.rs), the retrying HTTP   *)
(* client (src/src/http.rs) and the concurrent provider fan-out of main    *)
(* (src/src/main.rs).                                                      *)
(*                                                                         *)
(* Three specifications share the variables:                               *)
(*   SpecCache  the Cache API (get / set / clear / clear_all) on one       *)
(*              cache directory, with a clock;                             *)
(*   SpecHttp   one get_json / get_html call of an HttpClient;             *)
(*   Spec       one invocation of main: provider tasks (cache lookup,      *)
(*              fetch, cache write) polled by the collector loop;          *)
(*   FairSpec   Spec with the fairness of the executor.                    *)
(***************************************************************************)
EXTENDS Integers, Sequences, FiniteSets, TLC

(***************************************************************************)
(* Bounds of the model.                                                    *)
(***************************************************************************)
\* clock advances per behaviour
MaxTicks == 2
\* largest cache_ttl_mins tried
MaxTtlMins == 1
\* largest max_retries of an HttpClient tried
MaxRetries == 2
\* longest list of enabled providers tried
MaxEnabled == 2

(***************************************************************************)
(* Program constants.                                                      *)
(***************************************************************************)
\* ttl_secs: ttl_mins * 60
SecsPerMin == 60

(***************************************************************************)
(* Option<T>: None is the empty sequence, Some(x) the one-element one.     *)
(***************************************************************************)
None == <<>>
Some(x) == <<x>>
IsSome(o) == Len(o) = 1
Unwrap(o) == o[1]

(***************************************************************************)
(* model.rs: Repo.  A DateTime<Utc> is seconds and nanoseconds.  name and  *)
(* description, whose characters main looks at, are sequences of code      *)
(* points; the other strings are atoms.                                    *)
(***************************************************************************)
Providers == {"github", "gitlab", "gitea"}

icon(p) ==
    CASE p = "github" -> "[GH]"
      [] p = "gitlab" -> "[GL]"
      [] p = "gitea" -> "[GE]"

DateTime(s, n) == [secs |-> s, nanos |-> n]

Repo(p, ic, nm, lang, desc, u, st, tot, act, tps) ==
    [provider |-> p, icon |-> ic, name |-> nm, language |-> lang,
     description |-> desc, url |-> u, stars_today |-> st,
     stars_total |-> tot, last_activity |-> act, topics |-> tps]

\* The records a provider's adapter is taken to produce: the first with every
\* optional field present, the second with every optional field absent.
\* RepoA is named "a/b", RepoB by two CJK characters, "/" and "r".
RepoA(p) ==
    Repo(p, icon(p), <<97, 47, 98>>, Some("Rust"), Some(<<100>>), "ua", Some(3),
         Some(100), Some(DateTime(5, 7)), <<"cli">>)
RepoB(p) ==
    Repo(p, icon(p), <<27979, 35797, 47, 114>>, None, None, "ub", None, None,
         None, <<>>)

\* The record lists tried as a provider's result and as the argument of set.
RepoLists(p) == {<<>>, <<RepoB(p), RepoA(p)>>}

(***************************************************************************)
(* serde_json: a document is modelled as its value tree, [t, v] with t the *)
(* kind of value; a text that is no JSON document is Invalid.              *)
(***************************************************************************)
JNull == [t |-> "null", v |-> 0]
JNum(n) == [t |-> "num", v |-> n]
JStr(s) == [t |-> "str", v |-> s]
JArr(a) == [t |-> "arr", v |-> a]
JObj(o) == [t |-> "obj", v |-> o]
Invalid == [t |-> "invalid", v |-> 0]

\* chrono's serde format of DateTime<Utc>: RFC 3339 with the fraction kept
\* (the text is modelled by the fields it spells out).
Rfc3339Lossy(d) == [date_time |-> d.secs, frac |-> 0]
Rfc3339(d) == [date_time |-> d.secs, frac |-> d.nanos]
ParseRfc3339(s) == DateTime(s.date_time, s.frac)

SerOptStr(o) == IF IsSome(o) THEN JStr(Unwrap(o)) ELSE JNull
SerOptNum(o) == IF IsSome(o) THEN JNum(Unwrap(o)) ELSE JNull
SerOptDate(o) == IF IsSome(o) THEN JStr(Rfc3339(Unwrap(o))) ELSE JNull
SerStrs(s) == JArr([i \in 1..Len(s) |-> JStr(s[i])])

\* #[derive(Serialize)] for Repo
SerRepo(r) ==
    JObj([provider |-> JStr(r.provider), icon |-> JStr(r.icon),
          name |-> JStr(r.name), language |-> SerOptStr(r.language),
          description |-> SerOptStr(r.description), url |-> JStr(r.url),
          stars_today |-> SerOptNum(r.stars_today),
          stars_total |-> SerOptNum(r.stars_total),
          last_activity |-> SerOptDate(r.last_activity),
          topics |-> SerStrs(r.topics)])

\* #[derive(Serialize)] for CacheEntry, through serde_json::to_string_pretty
SerEntry(e) ==
    JObj([timestamp |-> JNum(e.timestamp),
          repos |-> JArr([i \in 1..Len(e.repos) |-> SerRepo(e.repos[i])])])

\* #[derive(Deserialize)]: what each field accepts.
IsStr(j) == j.t = "str"
IsNum(j) == j.t = "num"
IsOpt(j, t) == j.t = "null" \/ j.t = t
DeOpt(j) == IF j.t = "null" THEN None ELSE Some(j.v)
DeOptDate(j) == IF j.t = "null" THEN None ELSE Some(ParseRfc3339(j.v))
IsStrs(j) == j.t = "arr" /\ \A i \in DOMAIN j.v : IsStr(j.v[i])
DeStrs(j) == [i \in DOMAIN j.v |-> j.v[i].v]

RepoRequired == {"provider", "icon", "name", "url"}
RepoOptional == {"language", "description", "stars_today", "stars_total", "last_activity"}

Field(o, k) == IF k \in DOMAIN o THEN o[k] ELSE JNull

IsRepoJson(j) ==
    /\ j.t = "obj"
    /\ \A k \in RepoRequired : k \in DOMAIN j.v /\ IsStr(j.v[k])
    /\ IsOpt(Field(j.v, "language"), "str")
    /\ IsOpt(Field(j.v, "description"), "str")
    /\ IsOpt(Field(j.v, "stars_today"), "num")
    /\ IsOpt(Field(j.v, "stars_total"), "num")
    /\ IsOpt(Field(j.v, "last_activity"), "str")
    /\ ("topics" \in DOMAIN j.v => IsStrs(j.v["topics"]))

\* topics: #[serde(default)]
DeRepo(j) ==
    Repo(j.v["provider"].v, j.v["icon"].v, j.v["name"].v,
         DeOpt(Field(j.v, "language")), DeOpt(Field(j.v, "description")),
         j.v["url"].v, DeOpt(Field(j.v, "stars_today")),
         DeOpt(Field(j.v, "stars_total")),
         DeOptDate(Field(j.v, "last_activity")),
         IF "topics" \in DOMAIN j.v THEN DeStrs(j.v["topics"]) ELSE <<>>)

IsEntryJson(j) ==
    /\ j.t = "obj"
    /\ "timestamp" \in DOMAIN j.v /\ IsNum(j.v["timestamp"])
    /\ "repos" \in DOMAIN j.v /\ j.v["repos"].t = "arr"
    /\ \A i \in DOMAIN j.v["repos"].v : IsRepoJson(j.v["repos"].v[i])

\* serde_json::from_str::<CacheEntry>(..).ok(): None when the text does not parse
DeEntry(j) ==
    IF IsEntryJson(j)
    THEN Some([timestamp |-> j.v["timestamp"].v,
               repos |-> [i \in DOMAIN j.v["repos"].v |-> DeRepo(j.v["repos"].v[i])]])
    ELSE None


(***************************************************************************)
(* cache.rs: the cache directory is a map from file name to file.  A file  *)
(* is absent, present but unreadable, or present with a text.              *)
(***************************************************************************)
NoFile == [kind |-> "nofile", text |-> Invalid]
Unreadable == [kind |-> "unreadable", text |-> Invalid]
File(text) == [kind |-> "file", text |-> text]

\* Cache::cache_file
cache_file(provider) == provider \o ".json"

CacheFiles == {cache_file(p) : p \in Providers}

\* Cache::new, Cache::with_dir
Cache_new(ttl_mins) == [ttl_secs |-> ttl_mins * SecsPerMin]

\* u64::wrapping_sub, the wrap shown as a value above every TTL of the model
wrapping_sub(a, b) == IF a >= b THEN a - b ELSE (MaxTtlMins + 1) * SecsPerMin + 1

\* u64::saturating_sub
saturating_sub(a, b) == IF a >= b THEN a - b ELSE 0

\* Cache::get with the age test written >= (an entry as old as the TTL is dropped)
Cache_get_ge(c, fs, provider, t) ==
    LET f == fs[cache_file(provider)] IN
    IF f.kind # "file" THEN None
    ELSE LET entry == DeEntry(f.text) IN
         IF entry = None THEN None
         ELSE IF saturating_sub(t, Unwrap(entry).timestamp) >= c.ttl_secs THEN None
         ELSE Some(Unwrap(entry).repos)

\* Cache::get with the age computed by wrapping subtraction
Cache_get_wrapping(c, fs, provider, t) ==
    LET f == fs[cache_file(provider)] IN
    IF f.kind # "file" THEN None
    ELSE LET entry == DeEntry(f.text) IN
         IF entry = None THEN None
         ELSE IF wrapping_sub(t, Unwrap(entry).timestamp) > c.ttl_secs THEN None
         ELSE Some(Unwrap(entry).repos)

\* Cache::get(provider) at clock reading t: Option<Vec<Repo>>
Cache_get(c, fs, provider, t) ==
    LET f == fs[cache_file(provider)] IN
    IF f.kind = "nofile" THEN None
    ELSE IF f.kind = "unreadable" THEN None
    ELSE LET entry == DeEntry(f.text) IN
         IF entry = None THEN None
         ELSE IF saturating_sub(t, Unwrap(entry).timestamp) > c.ttl_secs THEN None
         ELSE Some(Unwrap(entry).repos)

\* How a file-system operation of set / clear / clear_all can end: done, failed
\* before touching the file, or (a write) failed after the file was truncated.
IoOutcomes == {"ok", "fail_before", "fail_partial"}

\* Cache::set with the entry stamped 0 instead of the clock reading
Cache_set_unstamped(fs, provider, repos, t, io) ==
    CASE io = "ok" ->
           [fs EXCEPT ![cache_file(provider)] =
               File(SerEntry([timestamp |-> 0, repos |-> repos]))]
      [] io = "fail_partial" -> [fs EXCEPT ![cache_file(provider)] = File(Invalid)]
      [] OTHER -> fs

\* Cache::set(provider, repos) at clock reading t: the directory afterwards
Cache_set(fs, provider, repos, t, io) ==
    CASE io = "ok" ->
           [fs EXCEPT ![cache_file(provider)] =
               File(SerEntry([timestamp |-> t, repos |-> repos]))]
      [] io = "fail_partial" -> [fs EXCEPT ![cache_file(provider)] = File(Invalid)]
      [] OTHER -> fs

\* Cache::set's Result
Cache_set_result(io) == IF io = "ok" THEN "Ok" ELSE "Err"

\* Cache::clear(provider): the directory afterwards
Cache_clear(fs, provider, io) ==
    IF fs[cache_file(provider)].kind # "nofile" /\ io = "ok"
    THEN [fs EXCEPT ![cache_file(provider)] = NoFile]
    ELSE fs

Cache_clear_result(fs, provider, io) ==
    IF fs[cache_file(provider)].kind = "nofile" \/ io = "ok" THEN "Ok" ELSE "Err"

\* Cache::clear_all: remove_dir_all removes every file, or fails having removed
\* the files in `removed`
Cache_clear_all(fs, io, removed) ==
    IF io = "ok" THEN [f \in DOMAIN fs |-> NoFile]
    ELSE [f \in DOMAIN fs |-> IF f \in removed THEN NoFile ELSE fs[f]]

(***************************************************************************)
(* State.                                                                  *)
(***************************************************************************)
VARIABLES
    cachefs,    \* the cache directory: file name -> file
    now,        \* the system clock, seconds since the epoch
    ticks,      \* clock advances so far
    cache,      \* Option<Cache>: the cache handle of the run
    last,       \* SpecCache: the last Cache call, its argument and what it returned
    written,    \* SpecCache: per provider, the list and time of the last set that
                \* returned Ok with no set / clear / outside change of the file since
    http,       \* SpecHttp: the HttpClient, the call in progress and its attempts
    cfg,        \* Spec: the resolved arguments and configuration of the invocation
    mpc,        \* Spec: where main is
    tasks,      \* Spec: the provider futures pushed on FuturesUnordered
    all_repos,  \* Spec: main's all_repos
    errors,     \* Spec: main's errors
    log         \* Spec: what each future returned, in completion order

apiVars == <<last, written>>
httpVars == <<http>>
mainVars == <<cfg, mpc, tasks, all_repos, errors, log>>
vars == <<cachefs, now, ticks, cache, last, written, http, cfg, mpc, tasks,
          all_repos, errors, log>>

\* The values of the variables a specification does not use.
NoCall == [op |-> "none", id |-> "", val |-> <<>>]
ApiOff == last = NoCall /\ written = [p \in Providers |-> None]
HttpOff == http = [pc |-> "off"]
MainOff ==
    /\ cfg = [ascii_only |-> FALSE, min_stars |-> None]
    /\ mpc = "off"
    /\ tasks = <<>>
    /\ all_repos = <<>>
    /\ errors = <<>>
    /\ log = <<>>

TickSteps == {1, SecsPerMin}

\* The clock advances.
Tick(d) ==
    /\ ticks < MaxTicks
    /\ now' = now + d
    /\ ticks' = ticks + 1

(***************************************************************************)
(* SpecCache: calls of the Cache API, as test_cache_roundtrip and          *)
(* test_cache_expiry make them, with the clock advancing in between and    *)
(* other programs changing the files.                                      *)
(***************************************************************************)
\* The provider ids the calls of SpecCache are made with.
CacheIds == {"github", "gitlab"}

InitCache ==
    /\ cachefs = [f \in CacheFiles |-> NoFile]
    /\ now = 0
    /\ ticks = 0
    /\ \E m \in 0..MaxTtlMins : cache = Some(Cache_new(m))
    /\ ApiOff
    /\ HttpOff
    /\ MainOff

\* Cache::get followed by the removal of the file of an entry found expired
CallGet_evict(p) ==
    /\ last' = [op |-> "get", id |-> p, val |-> Cache_get(Unwrap(cache), cachefs, p, now)]
    /\ cachefs' = IF /\ cachefs[cache_file(p)].kind = "file"
                     /\ DeEntry(cachefs[cache_file(p)].text) # None
                     /\ Cache_get(Unwrap(cache), cachefs, p, now) = None
                  THEN [cachefs EXCEPT ![cache_file(p)] = NoFile]
                  ELSE cachefs
    /\ UNCHANGED <<now, ticks, cache, written, httpVars, mainVars>>

CallGet(p) ==
    /\ last' = [op |-> "get", id |-> p, val |-> Cache_get(Unwrap(cache), cachefs, p, now)]
    /\ UNCHANGED <<cachefs, now, ticks, cache, written, httpVars, mainVars>>

CallSet(p, repos, io) ==
    /\ cachefs' = Cache_set(cachefs, p, repos, now, io)
    /\ last' = [op |-> "set", id |-> p, val |-> <<Cache_set_result(io)>>]
    /\ written' = [written EXCEPT ![p] =
                      IF io = "ok" THEN Some([repos |-> repos, at |-> now]) ELSE None]
    /\ UNCHANGED <<now, ticks, cache, httpVars, mainVars>>

CallClear(p, io) ==
    /\ cachefs' = Cache_clear(cachefs, p, io)
    /\ last' = [op |-> "clear", id |-> p, val |-> <<Cache_clear_result(cachefs, p, io)>>]
    /\ written' = [written EXCEPT ![p] = None]
    /\ UNCHANGED <<now, ticks, cache, httpVars, mainVars>>

CallClearAll(io, removed) ==
    /\ \E f \in CacheFiles : cachefs[f].kind # "nofile"
    /\ cachefs' = Cache_clear_all(cachefs, io, removed)
    /\ last' = [op |-> "clear_all", id |-> "", val |-> <<Cache_set_result(io)>>]
    /\ written' = [p \in Providers |-> None]
    /\ UNCHANGED <<now, ticks, cache, httpVars, mainVars>>

\* What another program (or another machine's clock) can leave in a cache file.
\* SkewedStamp is a timestamp later than every clock reading of the model.
SkewedStamp == (MaxTicks + 1) * SecsPerMin

OutsideFiles(p) ==
    {Unreadable, File(Invalid),
     File(SerEntry([timestamp |-> SkewedStamp, repos |-> <<RepoA(p)>>]))}

Outside(p, f) ==
    /\ cachefs[cache_file(p)] # f
    /\ cachefs' = [cachefs EXCEPT ![cache_file(p)] = f]
    /\ last' = NoCall
    /\ written' = [written EXCEPT ![p] = None]
    /\ UNCHANGED <<now, ticks, cache, httpVars, mainVars>>

CacheTick ==
    /\ \E d \in TickSteps : Tick(d)
    /\ last' = NoCall
    /\ UNCHANGED <<cachefs, cache, written, httpVars, mainVars>>

NextCache ==
    \/ \E p \in CacheIds : CallGet(p)
    \/ \E p \in CacheIds, io \in IoOutcomes :
           \E repos \in RepoLists(p) : CallSet(p, repos, io)
    \/ \E p \in CacheIds, io \in {"ok", "fail_before"} : CallClear(p, io)
    \/ \E io \in {"ok", "fail_before"}, removed \in SUBSET CacheFiles :
           CallClearAll(io, removed)
    \/ \E p \in CacheIds : \E f \in OutsideFiles(p) : Outside(p, f)
    \/ CacheTick

SpecCache == InitCache /\ [][NextCache]_vars


(***************************************************************************)
(* Claims about the cache (checked under SpecCache).                       *)
(***************************************************************************)
LastGet == last.op = "get"
Ttl == Unwrap(cache).ttl_secs
WrittenAt(p) == Unwrap(written[p]).at
WrittenRepos(p) == Unwrap(written[p]).repos

\* C8: cache round trip.  A get(p) that follows a successful set(p, R), with no
\* set or clear of p in between and an age of at most the TTL, returns exactly R:
\* the same records in the same order.
C8_RoundTrip ==
    (LastGet /\ IsSome(written[last.id]) /\ now - WrittenAt(last.id) <= Ttl)
        => last.val = Some(WrittenRepos(last.id))

\* C8 witness: a two-record list read back when its age equals a positive TTL.
C8_Witness ==
    /\ LastGet /\ IsSome(written[last.id])
    /\ Len(WrittenRepos(last.id)) = 2
    /\ Ttl > 0 /\ now - WrittenAt(last.id) = Ttl
    /\ last.val = Some(WrittenRepos(last.id))

\* The cases in which get reports an entry absent, in the claim's words.
Absent(p) ==
    LET f == cachefs[cache_file(p)] IN
    \/ f.kind = "nofile"
    \/ f.kind = "unreadable"
    \/ DeEntry(f.text) = None
    \/ now - Unwrap(DeEntry(f.text)).timestamp > Ttl

\* C9: cache expiry.  get(p) returns absent exactly when p has no file, the file
\* cannot be read or parsed, or now - timestamp > ttl_secs (strictly); so an
\* entry written under TTL = 0 is absent once a second has passed.
C9_Expiry ==
    LastGet =>
        /\ (last.val = None) <=> Absent(last.id)
        /\ (IsSome(written[last.id]) /\ Ttl = 0 /\ now - WrittenAt(last.id) >= 1)
               => last.val = None

\* C9 witness: under TTL = 0, an entry written a second ago or more is absent.
C9_Witness ==
    /\ LastGet /\ IsSome(written[last.id])
    /\ Ttl = 0 /\ now - WrittenAt(last.id) >= 1
    /\ last.val = None

\* An entry as old as a positive TTL is still a hit (the strict comparison).
C9_WitnessBoundary ==
    /\ LastGet /\ IsSome(written[last.id])
    /\ Ttl > 0 /\ now - WrittenAt(last.id) = Ttl
    /\ IsSome(last.val)


(***************************************************************************)
(* http.rs: HttpClient.  One attempt (get_json_once / get_html_once) is    *)
(* decided by what the network answers; get_json / get_html run it once,   *)
(* or under tokio_retry's Retry::spawn with max_retries back-off delays.   *)
(***************************************************************************)
\* What the network answers to one request.
Responses ==
    {[net |-> "error", status |-> 0, body |-> ""],
     [net |-> "timeout", status |-> 0, body |-> ""],
     [net |-> "ok", status |-> 200, body |-> "body1"],
     [net |-> "ok", status |-> 200, body |-> "body2"],
     [net |-> "ok", status |-> 200, body |-> "unparsable"],
     [net |-> "ok", status |-> 404, body |-> ""],
     [net |-> "ok", status |-> 500, body |-> ""]}

\* reqwest::StatusCode::is_client_error, is_success
is_client_error(status) == 400 <= status /\ status <= 499
is_success(status) == 200 <= status /\ status <= 299

\* The token of a call: absent, one that forms a header value, one that does not.
Tokens(kind) == IF kind = "json" THEN {"none", "valid", "invalid"} ELSE {"none"}

Ok(v) == [ok |-> TRUE, v |-> v]
Err(e) == [ok |-> FALSE, v |-> e]

\* get_json_once / get_html_once: the Result, and the requests it sent (0 or 1)
get_once(kind, token, resp) ==
    IF kind = "json" /\ token = "invalid"
    THEN [res |-> Err("Invalid authentication token"), sent |-> 0]
    ELSE [sent |-> 1,
          res |-> IF resp.net # "ok" THEN Err("Failed to fetch URL")
                  ELSE IF is_client_error(resp.status) THEN Err("client error")
                  ELSE IF ~is_success(resp.status) THEN Err("status")
                  ELSE IF resp.body = "unparsable" THEN Err("Failed to read response")
                  ELSE Ok(resp.body)]

\* Each attempt's result is kept with its position among the call's attempts.
Attempt(h, resp) ==
    [res |-> get_once(h.kind, h.token, resp).res, at |-> Len(h.tries) + 1]

\* ExponentialBackoff::from_millis(..).map(jitter).take(max_retries): its length
retry_strategy(h) == h.max_retries

\* get_json / get_html without the max_retries == 0 return and with one delay
\* more in the strategy
HttpClient_get_one_more(h, resp) ==
    LET a == Attempt(h, resp)
        tries == Append(h.tries, a)
        sent == h.sent + get_once(h.kind, h.token, resp).sent
    IN IF a.res.ok \/ Len(h.tries) >= retry_strategy(h) + 1
       THEN [h EXCEPT !.tries = tries, !.sent = sent, !.pc = "done", !.result = Some(a)]
       ELSE [h EXCEPT !.tries = tries, !.sent = sent, !.pc = "sleep"]

\* get_json / get_html returning, when the delays are used up, the first error
HttpClient_get_first_error(h, resp) ==
    LET a == Attempt(h, resp)
        tries == Append(h.tries, a)
        sent == h.sent + get_once(h.kind, h.token, resp).sent
    IN IF h.max_retries = 0 \/ a.res.ok
       THEN [h EXCEPT !.tries = tries, !.sent = sent, !.pc = "done", !.result = Some(a)]
       ELSE IF Len(h.tries) < retry_strategy(h)
       THEN [h EXCEPT !.tries = tries, !.sent = sent, !.pc = "sleep"]
       ELSE [h EXCEPT !.tries = tries, !.sent = sent, !.pc = "done",
                      !.result = Some(tries[1])]

\* get_json / get_html at one attempt answered resp.  With max_retries = 0 the
\* attempt's result is returned.  Otherwise Retry::spawn returns an Ok, and on
\* an Err (whatever the error) takes the next delay of the strategy and tries
\* again, or, the strategy used up, returns that Err.
HttpClient_get(h, resp) ==
    LET a == Attempt(h, resp)
        tries == Append(h.tries, a)
        sent == h.sent + get_once(h.kind, h.token, resp).sent
    IN IF h.max_retries = 0
       THEN [h EXCEPT !.tries = tries, !.sent = sent, !.pc = "done", !.result = Some(a)]
       ELSE IF a.res.ok \/ Len(h.tries) >= retry_strategy(h)
       THEN [h EXCEPT !.tries = tries, !.sent = sent, !.pc = "done", !.result = Some(a)]
       ELSE [h EXCEPT !.tries = tries, !.sent = sent, !.pc = "sleep"]

\* HttpClientBuilder::build and the call's arguments
InitHttp ==
    /\ \E n \in 0..MaxRetries, kind \in {"json", "html"} : \E token \in Tokens(kind) :
           http = [max_retries |-> n, kind |-> kind, token |-> token, pc |-> "call",
                   tries |-> <<>>, sent |-> 0, result |-> None]
    /\ cachefs = [f \in CacheFiles |-> NoFile]
    /\ now = 0
    /\ ticks = 0
    /\ cache = None
    /\ ApiOff
    /\ MainOff

\* One attempt runs to its end.
HttpAttempt(resp) ==
    /\ http.pc = "call"
    /\ http' = HttpClient_get(http, resp)
    /\ UNCHANGED <<cachefs, now, ticks, cache, apiVars, mainVars>>

\* The back-off delay passes.
HttpSleep ==
    /\ http.pc = "sleep"
    /\ http' = [http EXCEPT !.pc = "call"]
    /\ UNCHANGED <<cachefs, now, ticks, cache, apiVars, mainVars>>

NextHttp ==
    \/ \E resp \in Responses : HttpAttempt(resp)
    \/ HttpSleep

SpecHttp == InitHttp /\ [][NextHttp]_vars

(***************************************************************************)
(* Claims about the HTTP client (checked under SpecHttp).                  *)
(***************************************************************************)
HttpDone == http.pc = "done"
Attempts == Len(http.tries)

\* C5 (as claimed): a call whose request is answered with a 4xx status makes
\* exactly one network attempt, whatever max_retries is.
C5_Claim ==
    (Attempts >= 1 /\ http.tries[1].res = Err("client error"))
        => (Attempts = 1 /\ http.sent = 1)

C7_Retries ==
    http.max_retries > 0 =>
        /\ Attempts <= http.max_retries + 1
        /\ \A i \in DOMAIN http.tries : http.tries[i].res.ok => i = Attempts
        /\ HttpDone => /\ Attempts >= 1
                       /\ http.result = Some(http.tries[Attempts])
                       /\ ~http.tries[Attempts].res.ok => Attempts = http.max_retries + 1
        /\ ~HttpDone => ENABLED NextHttp

\* C7 witness: every one of the n + 1 attempts failed, with different errors,
\* and the last one's error is returned.
C7_Witness ==
    /\ HttpDone /\ http.max_retries > 0
    /\ Attempts = http.max_retries + 1
    /\ http.tries[1].res # http.tries[Attempts].res
    /\ ~Unwrap(http.result).res.ok
    /\ Unwrap(http.result) = http.tries[Attempts]


(***************************************************************************)
(* main.rs: one invocation.  main resolves the cache and the provider      *)
(* instances, pushes one future per instance on a FuturesUnordered and     *)
(* polls it until it is empty.  A future runs only while main polls it, so *)
(* a future's return and the loop body that takes its result are one step. *)
(***************************************************************************)
\* The invocation starts a minute and a second after the epoch of the model.
StartTime == SecsPerMin + 1

\* A provider's cache file before the invocation: absent, unreadable, not a
\* cache entry, or an entry written SecsPerMin seconds before StartTime.
PriorFile(p, k) ==
    CASE k = "nofile" -> NoFile
      [] k = "unreadable" -> Unreadable
      [] k = "unparsable" -> File(Invalid)
      [] OTHER -> File(SerEntry([timestamp |-> StartTime - SecsPerMin,
                                 repos |-> <<RepoA(p)>>]))
PriorKinds == {"nofile", "unreadable", "unparsable", "entry"}

\* The cache directories an invocation is started in: every file in the same
\* condition, or the three files in three different conditions.
PriorDirs ==
    {[f \in CacheFiles |-> PriorFile(CHOOSE p \in Providers : cache_file(p) = f, k)] :
        k \in PriorKinds}
    \cup {[f \in CacheFiles |->
              LET p == CHOOSE q \in Providers : cache_file(q) = f
              IN PriorFile(p, CASE p = "github" -> "entry"
                                [] p = "gitlab" -> "unparsable"
                                [] OTHER -> "nofile")]}

\* What -p and Config::enabled_providers can name.
ProviderNames == Providers \cup {"unknown"}

\* The lists of at most MaxEnabled names, tried up to order (nothing main does
\* depends on a name's place in the list).
Rank(name) ==
    CASE name = "github" -> 1 [] name = "gitlab" -> 2 [] name = "gitea" -> 3
      [] OTHER -> 4
EnabledLists ==
    {e \in UNION {[1..n -> ProviderNames] : n \in 0..MaxEnabled} :
        \A i \in 1..(Len(e) - 1) : Rank(e[i]) <= Rank(e[i + 1])}

\* Config::enabled_providers: the lists the configuration file gives when no
\* provider is named on the command line, each provider at most once
enabled_providers ==
    {e \in EnabledLists :
        /\ \A i \in DOMAIN e : e[i] \in Providers
        /\ \A i \in 1..(Len(e) - 1) : Rank(e[i]) < Rank(e[i + 1])}

RECURSIVE Keep(_, _, _)
\* The elements of s, from index i on, whose index is in `keep`.
Keep(s, keep, i) ==
    IF i > Len(s) THEN <<>>
    ELSE IF i \in keep THEN <<s[i]>> \o Keep(s, keep, i + 1)
    ELSE Keep(s, keep, i + 1)

\* main's provider_instances: the enabled names that are providers and whose
\* constructor returned Ok (`built`: the places of the list where it did)
provider_instances(enabled, built) ==
    Keep(enabled, {i \in built : enabled[i] \in Providers}, 1)

\* The future of a provider instance, before its first poll.  seen, fetches,
\* fetched and stored record what the future did: the file its cache lookup
\* read, the calls of top_today, what top_today returned and how the cache
\* write ended.
NewTask(id, c) ==
    [id |-> id, pc |-> IF IsSome(c) THEN "lookup" ELSE "fetch", repos |-> <<>>,
     seen |-> None, fetches |-> 0, fetched |-> None, stored |-> "none"]

InitMain ==
    /\ cachefs \in PriorDirs
    /\ now = StartTime
    /\ ticks = 0
    /\ cache = None
    /\ cfg = [ascii_only |-> FALSE, min_stars |-> None]
    /\ mpc = "start"
    /\ tasks = <<>>
    /\ all_repos = <<>>
    /\ errors = <<>>
    /\ log = <<>>
    /\ ApiOff
    /\ HttpOff

\* main up to the fan-out (lines 121-267): the cache handle, the provider
\* instances, one future each.
Setup(no_cache, ttl_mins, cache_dir_found, enabled, built) ==
    /\ mpc = "start"
    /\ IF ~no_cache /\ ~cache_dir_found
       THEN /\ mpc' = "failed: Failed to initialize cache"
            /\ UNCHANGED <<cache, tasks>>
       ELSE LET c == IF no_cache THEN None ELSE Some(Cache_new(ttl_mins))
                ids == provider_instances(enabled, built)
            IN /\ cache' = c
               /\ IF ids = <<>>
                  THEN /\ mpc' = "failed: No providers enabled or available"
                       /\ tasks' = <<>>
                  ELSE /\ mpc' = "collect"
                       /\ tasks' = [i \in 1..Len(ids) |-> NewTask(ids[i], c)]
    /\ UNCHANGED <<cachefs, now, ticks, cfg, all_repos, errors, log, apiVars, httpVars>>

\* Result<Vec<Repo>>: a future's result, and top_today's
Ok_(repos) == [ok |-> TRUE, v |-> repos, e |-> ""]
Err_(e) == [ok |-> FALSE, v |-> <<>>, e |-> e]

\* The body of the loop with a result list put in front of all_repos
Collected_prepend(repos, res) ==
    IF res.ok /\ res.v # <<>> THEN res.v \o repos ELSE repos

\* The body of main's `while let Some(result) = futures.next().await`
\* (lines 273-292) for a future's result: all_repos and errors after it
Collected(repos, res) ==
    IF res.ok /\ res.v # <<>> THEN repos \o res.v ELSE repos
CollectedErrors(errs, res) ==
    IF res.ok THEN errs ELSE Append(errs, res.e)

\* Future i, in its last state t, returns res and the loop takes it.
Complete(i, t, res) ==
    /\ tasks' = [tasks EXCEPT ![i] = [t EXCEPT !.pc = "done", !.repos = <<>>]]
    /\ all_repos' = Collected(all_repos, res)
    /\ errors' = CollectedErrors(errors, res)
    /\ log' = Append(log, [task |-> i, res |-> res])

\* Lines 218-226 with a hit followed by the fetch all the same
TaskLookup_refetch(i) ==
    /\ mpc = "collect"
    /\ tasks[i].pc = "lookup"
    /\ LET cached == Cache_get(Unwrap(cache), cachefs, tasks[i].id, now)
           t == [tasks[i] EXCEPT !.seen = Some(cachefs[cache_file(tasks[i].id)])]
       IN /\ tasks' = [tasks EXCEPT ![i] = [t EXCEPT !.pc = "fetch"]]
          /\ UNCHANGED <<all_repos, errors, log>>
    /\ UNCHANGED <<cachefs, now, ticks, cache, cfg, mpc, apiVars, httpVars>>

\* Lines 218-226: the cache lookup of future i, when there is a cache.
TaskLookup(i) ==
    /\ mpc = "collect"
    /\ tasks[i].pc = "lookup"
    /\ LET cached == Cache_get(Unwrap(cache), cachefs, tasks[i].id, now)
           t == [tasks[i] EXCEPT !.seen = Some(cachefs[cache_file(tasks[i].id)])]
       IN IF IsSome(cached)
          THEN Complete(i, t, Ok_(Unwrap(cached)))
          ELSE /\ tasks' = [tasks EXCEPT ![i] = [t EXCEPT !.pc = "fetch"]]
               /\ UNCHANGED <<all_repos, errors, log>>
    /\ UNCHANGED <<cachefs, now, ticks, cache, cfg, mpc, apiVars, httpVars>>

\* What top_today of provider id can return.
FetchResults(id) == {Err_(id)} \cup {Ok_(repos) : repos \in RepoLists(id)}

\* Lines 228-263 with an empty list returned without the cache write
TaskFetch_skip_empty(i, res) ==
    /\ mpc = "collect"
    /\ tasks[i].pc = "fetch"
    /\ LET t == [tasks[i] EXCEPT !.fetches = @ + 1, !.fetched = Some(res)] IN
       IF res.ok /\ IsSome(cache) /\ res.v # <<>>
       THEN /\ tasks' = [tasks EXCEPT ![i] = [t EXCEPT !.pc = "store", !.repos = res.v]]
            /\ UNCHANGED <<all_repos, errors, log>>
       ELSE Complete(i, t, res)
    /\ UNCHANGED <<cachefs, now, ticks, cache, cfg, mpc, apiVars, httpVars>>

\* Lines 228-256 with the list of an entry that was no hit returned when
\* top_today fails
TaskFetch_fallback(i, res) ==
    /\ mpc = "collect"
    /\ tasks[i].pc = "fetch"
    /\ LET t == [tasks[i] EXCEPT !.fetches = @ + 1, !.fetched = Some(res)]
           f == cachefs[cache_file(tasks[i].id)]
       IN
       IF res.ok /\ IsSome(cache)
       THEN /\ tasks' = [tasks EXCEPT ![i] = [t EXCEPT !.pc = "store", !.repos = res.v]]
            /\ UNCHANGED <<all_repos, errors, log>>
       ELSE IF ~res.ok /\ IsSome(cache) /\ f.kind = "file" /\ DeEntry(f.text) # None
       THEN Complete(i, t, Ok_(Unwrap(DeEntry(f.text)).repos))
       ELSE Complete(i, t, res)
    /\ UNCHANGED <<cachefs, now, ticks, cache, cfg, mpc, apiVars, httpVars>>

\* Lines 228-256 and 263: top_today returns res; an Err is the future's result
\* (the `?`), and so is an Ok when there is no cache.
TaskFetch(i, res) ==
    /\ mpc = "collect"
    /\ tasks[i].pc = "fetch"
    /\ LET t == [tasks[i] EXCEPT !.fetches = @ + 1, !.fetched = Some(res)] IN
       IF res.ok /\ IsSome(cache)
       THEN /\ tasks' = [tasks EXCEPT ![i] = [t EXCEPT !.pc = "store", !.repos = res.v]]
            /\ UNCHANGED <<all_repos, errors, log>>
       ELSE Complete(i, t, res)
    /\ UNCHANGED <<cachefs, now, ticks, cache, cfg, mpc, apiVars, httpVars>>

\* Lines 258-263 with the cache write's error returned (`?` for `let _ =`)
TaskStore_propagate(i, io) ==
    /\ mpc = "collect"
    /\ tasks[i].pc = "store"
    /\ cachefs' = Cache_set(cachefs, tasks[i].id, tasks[i].repos, now, io)
    /\ Complete(i, [tasks[i] EXCEPT !.stored = io],
                IF io = "ok" THEN Ok_(tasks[i].repos) ELSE Err_("Failed to write cache file"))
    /\ UNCHANGED <<now, ticks, cache, cfg, mpc, apiVars, httpVars>>

\* Lines 258-263: the cache write, its Result dropped, and the future's Ok.
TaskStore(i, io) ==
    /\ mpc = "collect"
    /\ tasks[i].pc = "store"
    /\ cachefs' = Cache_set(cachefs, tasks[i].id, tasks[i].repos, now, io)
    /\ Complete(i, [tasks[i] EXCEPT !.stored = io], Ok_(tasks[i].repos))
    /\ UNCHANGED <<now, ticks, cache, cfg, mpc, apiVars, httpVars>>

\* char::is_ascii
is_ascii(c) == c <= 127

\* ascii_ratio(s) <= num / 10: a ratio at the threshold is below it
ascii_ratio_at_or_below(str, num) ==
    IF str = <<>> THEN FALSE
    ELSE Cardinality({k \in DOMAIN str : is_ascii(str[k])}) * 10 <= Len(str) * num

\* ascii_ratio(s) < num / 10, for the thresholds 0.8 and 0.7: the ratio is 1.0
\* for an empty string and ascii_chars / total_chars otherwise
ascii_ratio_below(str, num) ==
    IF str = <<>> THEN FALSE
    ELSE Cardinality({k \in DOMAIN str : is_ascii(str[k])}) * 10 < Len(str) * num

\* is_mostly_ascii
is_mostly_ascii(repo) ==
    IF ascii_ratio_below(repo.name, 8) THEN FALSE
    ELSE IF IsSome(repo.description) /\ ascii_ratio_below(Unwrap(repo.description), 7)
    THEN FALSE
    ELSE TRUE

\* repo.stars_total.is_some_and(|s| s >= min_stars)
has_min_stars_present(repo, min_stars) ==
    IsSome(repo.stars_total) /\ Unwrap(repo.stars_total) >= min_stars

\* repo.stars_total.unwrap_or(0) >= min_stars
has_min_stars(repo, min_stars) ==
    (IF IsSome(repo.stars_total) THEN Unwrap(repo.stars_total) ELSE 0) >= min_stars

\* Lines 306-324: the two retain calls
Filtered(repos, ascii_only, min_stars) ==
    LET a == IF ascii_only THEN SelectSeq(repos, is_mostly_ascii) ELSE repos
        Enough(r) == has_min_stars(r, Unwrap(min_stars))
    IN IF IsSome(min_stars) THEN SelectSeq(a, Enough) ELSE a

\* futures.next() returns None as soon as one future has returned an Err
stream_ended_on_error(ts) ==
    \/ \A i \in DOMAIN ts : ts[i].pc = "done"
    \/ \E i \in DOMAIN ts : ts[i].pc = "done" /\ IsSome(ts[i].fetched)
                            /\ ~Unwrap(ts[i].fetched).ok

\* futures.next() returns None (line 273): every future has returned
stream_ended(ts) == \A i \in DOMAIN ts : ts[i].pc = "done"

\* Line 302 written as "every provider failed"
all_failed_every(repos, errs, ts) == Len(errs) = Len(ts)

\* Line 302: all_repos.is_empty() && !errors.is_empty()
all_failed(repos, errs, ts) == repos = <<>> /\ errs # <<>>

\* The min_stars values tried: none, one between the stars of the records, one
\* above them all.
MinStars == {None, Some(10), Some(101)}

\* Lines 294-333 with the filters run before the test of line 302
Finish_filter_first(ascii_only, min_stars) ==
    /\ mpc = "collect"
    /\ stream_ended(tasks)
    /\ cfg' = [ascii_only |-> ascii_only, min_stars |-> min_stars]
    /\ IF all_failed(Filtered(all_repos, ascii_only, min_stars), errors, tasks)
       THEN /\ mpc' = "failed: All providers failed"
            /\ UNCHANGED all_repos
       ELSE /\ mpc' = "done"
            /\ all_repos' = Filtered(all_repos, ascii_only, min_stars)
    /\ UNCHANGED <<cachefs, now, ticks, cache, tasks, errors, log, apiVars, httpVars>>

\* Lines 294-333: after the loop, the fatal error or the filters and the output.
Finish(ascii_only, min_stars) ==
    /\ mpc = "collect"
    /\ stream_ended(tasks)
    /\ cfg' = [ascii_only |-> ascii_only, min_stars |-> min_stars]
    /\ IF all_failed(all_repos, errors, tasks)
       THEN /\ mpc' = "failed: All providers failed"
            /\ UNCHANGED all_repos
       ELSE /\ mpc' = "done"
            /\ all_repos' = Filtered(all_repos, ascii_only, min_stars)
    /\ UNCHANGED <<cachefs, now, ticks, cache, tasks, errors, log, apiVars, httpVars>>

TaskStep(i) ==
    \/ TaskLookup(i)
    \/ \E res \in FetchResults(tasks[i].id) : TaskFetch(i, res)
    \/ \E io \in IoOutcomes : TaskStore(i, io)

Next ==
    \/ /\ mpc = "start"
       /\ \E no_cache \in BOOLEAN, ttl_mins \in 0..MaxTtlMins, cache_dir_found \in BOOLEAN :
              \E enabled \in EnabledLists : \E built \in SUBSET DOMAIN enabled :
                  Setup(no_cache, ttl_mins, cache_dir_found, enabled, built)
    \/ \E i \in DOMAIN tasks : TaskLookup(i)
    \/ \E i \in DOMAIN tasks : \E res \in FetchResults(tasks[i].id) : TaskFetch(i, res)
    \/ \E i \in DOMAIN tasks : \E io \in IoOutcomes : TaskStore(i, io)
    \/ /\ mpc = "collect"
       /\ \E ascii_only \in BOOLEAN, min_stars \in MinStars : Finish(ascii_only, min_stars)

Spec == InitMain /\ [][Next]_vars

\* An invocation without providers named on the command line, started in the
\* directory whose three files are in three conditions.
InitConfigured ==
    /\ InitMain
    /\ \A p \in Providers :
           cachefs[cache_file(p)] =
               PriorFile(p, CASE p = "github" -> "entry"
                              [] p = "gitlab" -> "unparsable"
                              [] OTHER -> "nofile")

NextConfigured ==
    \/ /\ mpc = "start"
       /\ \E no_cache \in BOOLEAN, ttl_mins \in 0..MaxTtlMins, cache_dir_found \in BOOLEAN :
              \E enabled \in enabled_providers : \E built \in SUBSET DOMAIN enabled :
                  Setup(no_cache, ttl_mins, cache_dir_found, enabled, built)
    \/ \E i \in DOMAIN tasks : TaskLookup(i)
    \/ \E i \in DOMAIN tasks : \E res \in FetchResults(tasks[i].id) : TaskFetch(i, res)
    \/ \E i \in DOMAIN tasks : \E io \in IoOutcomes : TaskStore(i, io)
    \/ /\ mpc = "collect"
       /\ \E ascii_only \in BOOLEAN, min_stars \in MinStars : Finish(ascii_only, min_stars)

\* main awaits futures.next() until it returns None, which polls every future
\* that can go on: no future that can take a step waits for ever, and main goes
\* on once the stream has ended.
FairSpec ==
    /\ InitConfigured
    /\ [][NextConfigured]_vars
    /\ \A i \in 1..MaxEnabled : WF_vars(i \in DOMAIN tasks /\ TaskStep(i))
    /\ WF_vars(\E ascii_only \in BOOLEAN, min_stars \in MinStars :
                   Finish(ascii_only, min_stars))

(***************************************************************************)
(* The orchestrator's properties.                                          *)
(***************************************************************************)
Fatal == "failed: All providers failed"
Decided == mpc \in {"done", Fatal}

\* The positions of log at which future i reported
Entries(i) == {k \in DOMAIN log : log[k].task = i}
Reported(i) == Entries(i) # {}

\* What the lookup of future i met, from the file it read
Met(i) ==
    LET t == tasks[i] IN
    IF t.seen = None THEN "none"
    ELSE LET f == Unwrap(t.seen) IN
         CASE f.kind = "nofile" -> "nofile"
           [] f.kind = "unreadable" -> "unreadable"
           [] f.kind = "file" /\ DeEntry(f.text) = None -> "unparsable"
           [] OTHER -> IF now - Unwrap(DeEntry(f.text)).timestamp
                             > Unwrap(cache).ttl_secs
                       THEN "expired" ELSE "hit"
Stale == {"nofile", "unreadable", "unparsable", "expired"}
CachedList(i) == Unwrap(DeEntry(Unwrap(tasks[i].seen).text)).repos

\* What provider task i obtained: the cached list on a hit, else what top_today
\* returned
Obtained(i) ==
    IF Met(i) = "hit" THEN Ok_(CachedList(i)) ELSE Unwrap(tasks[i].fetched)

\* The concatenation, in the order of log, of the lists obtained by the tasks
\* that succeeded
RECURSIVE Merged(_)
Merged(l) ==
    IF l = <<>> THEN <<>>
    ELSE LET o == Obtained(l[Len(l)].task)
         IN Merged(SubSeq(l, 1, Len(l) - 1)) \o (IF o.ok THEN o.v ELSE <<>>)

\* C1: with at least one provider instance built, the invocation ends in the
\* fatal failure 'All providers failed' if and only if, every task having
\* reported, the merged list is empty and at least one provider reported an
\* error; when every provider succeeds with an empty list it succeeds with an
\* empty output, and when the single provider fails it fails.
C1_Fatal ==
    (tasks # <<>> /\ mpc \notin {"start", "collect"}) =>
        /\ Decided
        /\ \A i \in DOMAIN tasks : Reported(i)
        /\ mpc = Fatal <=> (/\ Merged(log) = <<>>
                            /\ \E i \in DOMAIN tasks : ~Obtained(i).ok)
        /\ (\A i \in DOMAIN tasks : Obtained(i) = Ok_(<<>>)) =>
               (mpc = "done" /\ all_repos = <<>>)
        /\ (Len(tasks) = 1 /\ ~Obtained(1).ok) => mpc = Fatal

\* Two providers, one reporting an empty list and the other an error: fatal
C1_Witness ==
    /\ mpc = Fatal
    /\ Len(tasks) = 2
    /\ \E i, j \in DOMAIN tasks : Obtained(i) = Ok_(<<>>) /\ ~Obtained(j).ok

\* C2: before the filters, the merged list is the concatenation, in completion
\* order, of the lists of the providers that succeeded, each task's result
\* taken once: nothing of a successful provider is lost, nothing comes from a
\* failed one.
C2_Merge ==
    mpc \in {"collect", Fatal} =>
        /\ all_repos = Merged(log)
        /\ \A i \in DOMAIN tasks : Cardinality(Entries(i)) <= 1
        /\ \A k \in DOMAIN log : log[k].res = Obtained(log[k].task)
        /\ Len(errors) = Cardinality({k \in DOMAIN log : ~log[k].res.ok})

\* The second instance completes first, both with records: its records come
\* first in the merged list
C2_Witness ==
    /\ mpc = "collect"
    /\ stream_ended(tasks)
    /\ Len(log) = 2
    /\ log[1].task = 2
    /\ tasks[1].id = "github"
    /\ tasks[2].id = "gitlab"
    /\ Len(all_repos) = 4
    /\ all_repos[1].provider = "gitlab"
    /\ all_repos[3].provider = "github"

\* C3: every provider task eventually reports exactly one result, whatever the
\* others do, and the decision between the fatal failure and the output is made
\* only after all of them have reported.
C3_AllReport ==
    /\ [](\A i \in DOMAIN tasks :
             Cardinality(Entries(i)) = IF tasks[i].pc = "done" THEN 1 ELSE 0)
    /\ [](Decided => \A i \in DOMAIN tasks : Reported(i))
    /\ \A i \in 1..MaxEnabled : (i \in DOMAIN tasks) ~> Reported(i)
    /\ (mpc = "collect") ~> Decided

\* The first task to report reported an error, and the other reported after it
C3_Witness ==
    /\ Len(tasks) = 2
    /\ Len(log) = 2
    /\ ~log[1].res.ok
    /\ log[2].res.ok
    /\ log[2].res.v # <<>>
    /\ mpc = "done"

\* C4: on a cache hit for a provider, top_today is not called for it and the
\* result reported for it is the cached list; top_today is called only without
\* a cache or after a lookup that was no hit.
C4_CacheHit ==
    \A i \in DOMAIN tasks :
        /\ Met(i) = "hit" =>
               /\ tasks[i].fetches = 0
               /\ tasks[i].pc = "done"
               /\ \E k \in DOMAIN log : log[k] = [task |-> i, res |-> Ok_(CachedList(i))]
        /\ tasks[i].fetches > 0 =>
               /\ tasks[i].fetches = 1
               /\ cache = None \/ Met(i) \in Stale
        /\ cache = None => tasks[i].seen = None

\* One provider instance served from the entry in the cache
C4_Witness ==
    \E i \in DOMAIN tasks :
        /\ Met(i) = "hit"
        /\ tasks[i].pc = "done"
        /\ tasks[i].fetches = 0
        /\ Decided
        /\ all_repos = <<RepoA(tasks[i].id)>>

\* A task that met an unreadable or unparsable file goes on to top_today, and a
\* task whose cache write failed reports the list top_today returned; no error
\* reported is the cache's.
C10_ReadWrite ==
    \A i \in DOMAIN tasks :
        /\ Met(i) \in {"unreadable", "unparsable"} =>
               /\ tasks[i].pc \in {"fetch", "store", "done"}
               /\ tasks[i].pc \in {"store", "done"} => tasks[i].fetches = 1
        /\ tasks[i].stored \in {"fail_before", "fail_partial"} =>
               /\ tasks[i].pc = "done"
               /\ Unwrap(tasks[i].fetched).ok
        /\ \A k \in Entries(i) :
               /\ Met(i) # "hit" => log[k].res = Unwrap(tasks[i].fetched)
               /\ ~log[k].res.ok => log[k].res = Err_(tasks[i].id)

MaxGets == 2

\* The length of a text, in units: an entry's text grows with its records and
\* their names; a text that is no JSON document carries its length.
RECURSIVE ReposLen(_)
ReposLen(repos) ==
    IF repos = <<>> THEN 0
    ELSE 1 + Len(repos[1].name) + ReposLen(SubSeq(repos, 2, Len(repos)))
TextLen(text) ==
    IF text.t = "invalid" THEN text.v
    ELSE 1 + ReposLen(Unwrap(DeEntry(text)).repos)

\* A text that is no JSON document, n units long (Invalid is the empty one)
Garbled(n) == [t |-> "invalid", v |-> n]

\* OpenOptions::new().write(true).create(true).truncate(true).open(path)
Truncated(f) == File(Garbled(0))

\* write_all(text) through a descriptor at offset 0, on the file as it is now:
\* the text replaces the first TextLen(text) units, what lies beyond them stays
Overwritten(f, text) ==
    IF f.kind # "file" \/ TextLen(text) >= TextLen(f.text)
    THEN File(text)
    ELSE File(Garbled(TextLen(f.text)))

RaceId == "github"
RaceFile == cache_file(RaceId)

\* A set call before its first step: `text` is the serialized entry, once made
Writer(repos) == [op |-> "set", pc |-> "start", repos |-> repos, text |-> Invalid]

\* Two set calls and a reader of RaceId, on a directory that holds an earlier
\* entry of RaceId or none
InitRace ==
    /\ \E prior \in {NoFile,
                     File(SerEntry([timestamp |-> 0, repos |-> <<RepoA(RaceId)>>]))} :
           cachefs = [f \in CacheFiles |-> IF f = RaceFile THEN prior ELSE NoFile]
    /\ now = 0
    /\ ticks = 0
    /\ cache = Some(Cache_new(MaxTtlMins))
    /\ \E r1, r2 \in RepoLists(RaceId) : tasks = <<Writer(r1), Writer(r2)>>
    /\ log = <<>>
    /\ cfg = [ascii_only |-> FALSE, min_stars |-> None]
    /\ mpc = "race"
    /\ all_repos = <<>>
    /\ errors = <<>>
    /\ ApiOff
    /\ HttpOff

\* Cache::set, lines 78-94 and the open of line 97: the entry is stamped and
\* serialized, the file created or truncated
SetOpen(w) ==
    /\ mpc = "race"
    /\ tasks[w].pc = "start"
    /\ tasks' = [tasks EXCEPT ![w] = [@ EXCEPT !.pc = "opened",
                    !.text = SerEntry([timestamp |-> now, repos |-> tasks[w].repos])]]
    /\ cachefs' = [cachefs EXCEPT ![RaceFile] = Truncated(@)]
    /\ UNCHANGED <<now, ticks, cache, cfg, mpc, all_repos, errors, log, apiVars, httpVars>>

\* Cache::set, the write of line 97 and the return
SetWrite(w) ==
    /\ mpc = "race"
    /\ tasks[w].pc = "opened"
    /\ tasks' = [tasks EXCEPT ![w] = [@ EXCEPT !.pc = "done"]]
    /\ cachefs' = [cachefs EXCEPT ![RaceFile] = Overwritten(@, tasks[w].text)]
    /\ UNCHANGED <<now, ticks, cache, cfg, mpc, all_repos, errors, log, apiVars, httpVars>>

\* Cache::get of the reader: the file it read and what it returned
RaceGet ==
    /\ mpc = "race"
    /\ Len(log) < MaxGets
    /\ log' = Append(log, [file |-> cachefs[RaceFile],
                           val |-> Cache_get(Unwrap(cache), cachefs, RaceId, now),
                           writing |-> {w \in DOMAIN tasks : tasks[w].pc = "opened"}])
    /\ UNCHANGED <<cachefs, now, ticks, cache, cfg, mpc, tasks, all_repos, errors, apiVars, httpVars>>

RaceTick ==
    /\ mpc = "race"
    /\ Tick(1)
    /\ UNCHANGED <<cachefs, cache, mainVars, apiVars, httpVars>>

NextRace ==
    \/ \E w \in DOMAIN tasks : SetOpen(w)
    \/ \E w \in DOMAIN tasks : SetWrite(w)
    \/ RaceGet
    \/ RaceTick

SpecRace == InitRace /\ [][NextRace]_vars

\* The texts the set calls of the race write, and the entry there before
RaceEntries == {tasks[w].text : w \in {v \in DOMAIN tasks : tasks[v].pc # "start"}}

\* C11: a get that runs while a set of the same provider is under way reads a
\* complete entry, the previous one or the new one, never a truncated or
\* partly written file; and once two racing set calls have returned the file
\* holds the complete entry of one of them.
C11_Claim ==
    /\ \A k \in DOMAIN log :
           (log[k].writing # {} /\ log[k].file.kind = "file") =>
               DeEntry(log[k].file.text) # None
    /\ (\A w \in DOMAIN tasks : tasks[w].pc = "done") =>
           cachefs[RaceFile] \in {File(tasks[w].text) : w \in DOMAIN tasks}

\* The reader found the file empty between a writer's open and its write
C11_TruncatedRead ==
    \E k \in DOMAIN log :
        /\ log[k].writing # {}
        /\ log[k].file = File(Garbled(0))
        /\ log[k].val = None

\* Both set calls have returned and the file is no entry at all: the shorter
\* text followed by the end of the longer one
C11_MixedFile ==
    /\ \A w \in DOMAIN tasks : tasks[w].pc = "done"
    /\ DeEntry(cachefs[RaceFile].text) = None
    /\ TextLen(cachefs[RaceFile].text) > 0

(***************************************************************************)
(* model.rs and providers/: LanguageFilter and the adapters' top_today.    *)
(* A string the adapters look into is the sequence of its code points.     *)
(***************************************************************************)
\* longest list of items in an upstream answer tried
MaxItems == 2
\* largest limit passed to top_today tried
MaxLimit == 2

s_rust == <<114, 117, 115, 116>>
s_Rust == <<82, 117, 115, 116>>
s_RUST == <<82, 85, 83, 84>>
s_python == <<112, 121, 116, 104, 111, 110>>
s_Pythonic == <<80, 121, 116, 104, 111, 110, 105, 99>>
s_cli == <<99, 108, 105>>
s_AI == <<65, 73>>
s_ai == <<97, 105>>

\* u8::to_ascii_lowercase on a code point
to_ascii_lowercase(c) == IF c >= 65 /\ c <= 90 THEN c + 32 ELSE c

\* str::eq_ignore_ascii_case
eq_ignore_ascii_case(a, b) ==
    /\ Len(a) = Len(b)
    /\ \A i \in DOMAIN a : to_ascii_lowercase(a[i]) = to_ascii_lowercase(b[i])

\* LanguageFilter::matches with the comparison made on a prefix of the language
LanguageFilter_matches_prefix(languages, language) ==
    IF languages = <<>> THEN TRUE
    ELSE /\ IsSome(language)
         /\ \E i \in DOMAIN languages :
                /\ Len(Unwrap(language)) >= Len(languages[i])
                /\ eq_ignore_ascii_case(SubSeq(Unwrap(language), 1, Len(languages[i])),
                                        languages[i])

\* LanguageFilter::matches(language), languages the filter's list
LanguageFilter_matches(languages, language) ==
    IF languages = <<>> THEN TRUE
    ELSE /\ IsSome(language)
         /\ \E i \in DOMAIN languages :
                eq_ignore_ascii_case(Unwrap(language), languages[i])

\* What an upstream answer says of one repository: the fields the adapters read
\* (updated: the date text, valid or not, when there is one; url: the URL of
\* a JSON answer, the href of a scraped page)
Item(nm, lang, stars, tps, upd, u) ==
    [name |-> nm, language |-> lang, stars |-> stars, topics |-> tps,
     updated |-> upd, url |-> u]
DateText(valid, at) == [valid |-> valid, at |-> at]
Items ==
    {Item(<<97, 47, 98>>, Some(s_Rust), Some(100), <<s_rust, s_cli>>,
          Some(DateText(TRUE, DateTime(5, 0))), <<47, 97, 47, 98>>),
     Item(<<99, 47, 100>>, Some(s_python), Some(50), <<s_AI, s_python>>,
          Some(DateText(FALSE, DateTime(0, 0))), <<47, 99, 47, 100>>),
     Item(<<101, 47, 102>>, Some(s_Pythonic), Some(5), <<>>,
          Some(DateText(TRUE, DateTime(6, 0))), <<47, 101, 47, 102>>),
     Item(<<103, 47, 104>>, None, None, <<s_cli>>, None, <<47, 103, 47, 104>>),
     Item(<<>>, Some(s_Rust), Some(100), <<s_rust>>,
          Some(DateText(TRUE, DateTime(5, 0))), <<>>)}
ItemLists == UNION {[1..n -> Items] : n \in 0..MaxItems}

\* What a query of an adapter meets: no connection, a non-success status, a
\* body that is no JSON of the expected shape, or a body with items; and for
\* get_json a configured token that forms no header value, on which the query
\* fails before a request is sent
Answers ==
    {[kind |-> k, items |-> <<>>] : k \in {"network", "status", "unparsable", "bad_token"}}
    \cup {[kind |-> "ok", items |-> l] : l \in ItemLists}

\* The language filters tried
Filters == {<<>>, <<s_rust>>, <<s_python, s_RUST>>}
\* The topic-exclusion lists tried
Exclusions == {<<>>, <<s_ai>>}
AdapterIds == Providers

\* Iterator::take that lets every element through
Take_all(s, n) == s

\* Iterator::filter, Iterator::take, Iterator::map
Filter(s, Test(_)) == SelectSeq(s, Test)
Take(s, n) == SubSeq(s, 1, IF n < Len(s) THEN n ELSE Len(s))
Map(s, F(_)) == [i \in DOMAIN s |-> F(s[i])]

\* char::to_lowercase / char::to_uppercase on the code points of the model: the
\* ASCII letters, and the Kelvin sign U+212A whose lower case is "k"
to_lowercase(c) ==
    IF c >= 65 /\ c <= 90 THEN c + 32 ELSE IF c = 8490 THEN 107 ELSE c
to_uppercase(c) == IF c >= 97 /\ c <= 122 THEN c - 32 ELSE c
str_to_lowercase(s) == [i \in DOMAIN s |-> to_lowercase(s[i])]

\* GitLab::extract_language, the table of language tags
languages ==
    <<<<114, 117, 115, 116>>,
      <<103, 111>>,
      <<103, 111, 108, 97, 110, 103>>,
      <<112, 121, 116, 104, 111, 110>>,
      <<106, 97, 118, 97, 115, 99, 114, 105, 112, 116>>,
      <<116, 121, 112, 101, 115, 99, 114, 105, 112, 116>>,
      <<106, 97, 118, 97>>,
      <<99>>,
      <<99, 112, 112>>,
      <<99, 43, 43>>,
      <<99, 115, 104, 97, 114, 112>>,
      <<99, 35>>,
      <<114, 117, 98, 121>>,
      <<112, 104, 112>>,
      <<115, 119, 105, 102, 116>>,
      <<107, 111, 116, 108, 105, 110>>,
      <<115, 99, 97, 108, 97>>,
      <<104, 97, 115, 107, 101, 108, 108>>,
      <<101, 108, 105, 120, 105, 114>>,
      <<101, 114, 108, 97, 110, 103>>>>

s_Go == <<71, 111>>
s_Cpp == <<67, 43, 43>>
s_Csharp == <<67, 35>>

\* The first index of s whose element passes Test, 0 when there is none
Find(s, Test(_)) ==
    IF \E i \in DOMAIN s : Test(s[i])
    THEN CHOOSE i \in DOMAIN s : Test(s[i]) /\ \A j \in 1..(i - 1) : ~Test(s[j])
    ELSE 0

\* str::contains
Contains(s, sub) ==
    \E a \in 0..(Len(s) - Len(sub)) : SubSeq(s, a + 1, a + Len(sub)) = sub

\* GitLab::extract_language with `lower.contains(lang)` for `lower == lang`
extract_language_contains(topics) ==
    LET IsLang(topic) ==
            \E k \in DOMAIN languages : Contains(str_to_lowercase(topic), languages[k])
        i == Find(topics, IsLang)
    IN IF i = 0 THEN None
       ELSE LET s == topics[i]
                lower == str_to_lowercase(s)
            IN Some(CASE lower = <<103, 111, 108, 97, 110, 103>> -> s_Go
                      [] lower = <<99, 43, 43>> -> s_Cpp
                      [] lower = <<99, 35>> -> s_Csharp
                      [] OTHER -> IF s = <<>> THEN <<>>
                                  ELSE <<to_uppercase(s[1])>> \o SubSeq(s, 2, Len(s)))

\* GitLab::extract_language(topics)
extract_language(topics) ==
    LET IsLang(topic) == \E k \in DOMAIN languages : str_to_lowercase(topic) = languages[k]
        i == Find(topics, IsLang)
    IN IF i = 0 THEN None
       ELSE LET s == topics[i]
                lower == str_to_lowercase(s)
            IN Some(CASE lower = <<103, 111, 108, 97, 110, 103>> -> s_Go
                      [] lower = <<99, 43, 43>> -> s_Cpp
                      [] lower = <<99, 35>> -> s_Csharp
                      [] OTHER -> IF s = <<>> THEN <<>>
                                  ELSE <<to_uppercase(s[1])>> \o SubSeq(s, 2, Len(s)))

\* chrono::DateTime::parse_from_rfc3339(text).ok(), on a date text of an answer:
\* a text is a valid date or not
parse_date(text) == IF text.valid THEN Some(text.at) ELSE None
and_then_parse(o) == IF IsSome(o) THEN parse_date(Unwrap(o)) ELSE None

unwrap_or(o, d) == IF IsSome(o) THEN Unwrap(o) ELSE d

\* Result<Vec<Repo>> of top_today with the number of requests it made
Returned(res, queries) == [res |-> res, queries |-> queries]

\* get_json(..).await? on an answer: the items, or the error returned
json_failed(a) == a.kind # "ok"

\* GitLab::fetch_projects after get_json: projects with at least 10 stars
gitlab_popular(p) == unwrap_or(p.stars, 0) >= 10

\* GitLab::top_today(cfg, limit, langs) when the request meets answer a
GitLab_top_today(limit, langs, a) ==
    IF json_failed(a) THEN Returned(Err_(a.kind), 1)
    ELSE LET projects == Filter(a.items, gitlab_popular)
             WithLang(p) == [p |-> p, language |-> extract_language(p.topics)]
             Matches(pl) == LanguageFilter_matches(langs, pl.language)
             ToRepo(pl) ==
                 Repo("gitlab", icon("gitlab"), pl.p.name, pl.language, None,
                      pl.p.url, None, pl.p.stars, and_then_parse(pl.p.updated),
                      pl.p.topics)
         IN Returned(Ok_(Map(Take(Filter(Map(projects, WithLang), Matches), limit),
                             ToRepo)), 1)

\* Gitea::fetch_repos after get_json: repositories with at least 1 star
gitea_starred(r) == unwrap_or(r.stars, 0) >= 1

\* Gitea::top_today with take(limit) ahead of the language filter
Gitea_top_today_take_first(limit, langs, a) ==
    IF json_failed(a) THEN Returned(Err_(a.kind), 1)
    ELSE LET repositories == Filter(a.items, gitea_starred)
             Matches(r) == LanguageFilter_matches(langs, r.language)
             ToRepo(r) ==
                 Repo("gitea", icon("gitea"), r.name, r.language, None, r.url,
                      None, r.stars, and_then_parse(r.updated), <<>>)
         IN Returned(Ok_(Map(Filter(Take(repositories, limit), Matches), ToRepo)), 1)

\* Gitea::top_today(cfg, limit, langs) when the request meets answer a
Gitea_top_today(limit, langs, a) ==
    IF json_failed(a) THEN Returned(Err_(a.kind), 1)
    ELSE LET repositories == Filter(a.items, gitea_starred)
             Matches(r) == LanguageFilter_matches(langs, r.language)
             ToRepo(r) ==
                 Repo("gitea", icon("gitea"), r.name, r.language, None, r.url,
                      None, r.stars, and_then_parse(r.updated), <<>>)
         IN Returned(Ok_(Map(Take(Filter(repositories, Matches), limit), ToRepo)), 1)

\* GitHubSearchResponse: stargazers_count and updated_at are not optional, an
\* item without one makes the whole answer unparsable
api_failed(a) ==
    \/ json_failed(a)
    \/ \E i \in DOMAIN a.items : a.items[i].stars = None \/ a.items[i].updated = None

\* GitHub::top_today, the search-API path with the topics compared exactly
GitHub_api_exact(exclude_topics, limit, langs, a) ==
    IF api_failed(a) THEN Returned(Err_(IF json_failed(a) THEN a.kind ELSE "unparsable"), 1)
    ELSE LET Excluded(r) ==
                 \E i \in DOMAIN r.topics : \E j \in DOMAIN exclude_topics :
                     r.topics[i] = exclude_topics[j]
             Kept(r) == LanguageFilter_matches(langs, r.language) /\ ~Excluded(r)
             ToRepo(r) ==
                 Repo("github", icon("github"), r.name, r.language, None, r.url,
                      None, Some(Unwrap(r.stars)), parse_date(Unwrap(r.updated)),
                      r.topics)
         IN Returned(Ok_(Map(Take(Filter(a.items, Kept), limit), ToRepo)), 1)

\* GitHub::top_today, the search-API path (cfg.exclude_topics not empty)
GitHub_api(exclude_topics, limit, langs, a) ==
    IF api_failed(a) THEN Returned(Err_(IF json_failed(a) THEN a.kind ELSE "unparsable"), 1)
    ELSE LET Excluded(r) ==
                 \E i \in DOMAIN r.topics : \E j \in DOMAIN exclude_topics :
                     eq_ignore_ascii_case(r.topics[i], exclude_topics[j])
             Kept(r) == LanguageFilter_matches(langs, r.language) /\ ~Excluded(r)
             ToRepo(r) ==
                 Repo("github", icon("github"), r.name, r.language, None, r.url,
                      None, Some(Unwrap(r.stars)), parse_date(Unwrap(r.updated)),
                      r.topics)
         IN Returned(Ok_(Map(Take(Filter(a.items, Kept), limit), ToRepo)), 1)

\* GitHub::fetch_trending: get_html, then parse_trending_html, which fails on a
\* page without a repository; the TrendingRepo list or the failure
fetch_trending(a) ==
    IF a.kind \in {"network", "status"} THEN Err_(a.kind)
    ELSE IF a.kind = "unparsable" \/ a.items = <<>>
    THEN Err_("Failed to parse any repositories from GitHub trending page")
    ELSE Ok_(a.items)

\* The loop of lines 222-227 over the first n languages: the pages that came
\* are concatenated, a failed request adds nothing
RECURSIVE trending_of(_, _)
trending_of(answers, n) ==
    IF n = 0 THEN <<>>
    ELSE trending_of(answers, n - 1)
             \o (IF fetch_trending(answers[n]).ok THEN fetch_trending(answers[n]).v
                 ELSE <<>>)

\* "https://github.com"
s_github_com ==
    <<104, 116, 116, 112, 115, 58, 47, 47, 103, 105, 116, 104, 117, 98, 46, 99, 111, 109>>

\* GitHub::top_today, the scrape path with one request, for the first language
\* of the filter
GitHub_scrape_first_language(limit, langs, answers, t) ==
    LET first == fetch_trending(answers[1])
        ToRepo(r) ==
            Repo("github", icon("github"), r.name, r.language, None,
                 s_github_com \o r.url, None, r.stars, Some(DateTime(t, 0)), <<>>)
        Matches(r) == LanguageFilter_matches(langs, r.language)
        Out(trending, q) ==
            Returned(Ok_(Map(Take(Filter(trending, Matches), limit), ToRepo)), q)
    IN IF langs = <<>>
       THEN IF first.ok THEN Out(first.v, 1) ELSE Returned(first, 1)
       ELSE Out(trending_of(answers, 1), 1)

\* GitHub::top_today, the scrape path at clock reading t; answers[i] is what the
\* i-th request meets
GitHub_scrape(limit, langs, answers, t) ==
    LET first == fetch_trending(answers[1])
        ToRepo(r) ==
            Repo("github", icon("github"), r.name, r.language, None,
                 s_github_com \o r.url, None, r.stars, Some(DateTime(t, 0)), <<>>)
        Matches(r) == LanguageFilter_matches(langs, r.language)
        Out(trending, q) ==
            Returned(Ok_(Map(Take(Filter(trending, Matches), limit), ToRepo)), q)
    IN IF langs = <<>>
       THEN IF first.ok THEN Out(first.v, 1) ELSE Returned(first, 1)
       ELSE Out(trending_of(answers, Len(langs)), Len(langs))

\* Provider::top_today of adapter id
top_today(id, exclude_topics, limit, langs, answers, t) ==
    CASE id = "gitlab" -> GitLab_top_today(limit, langs, answers[1])
      [] id = "gitea" -> Gitea_top_today(limit, langs, answers[1])
      [] exclude_topics # <<>> -> GitHub_api(exclude_topics, limit, langs, answers[1])
      [] OTHER -> GitHub_scrape(limit, langs, answers, t)

\* The requests a call can make: one, or one per language of the filter on
\* GitHub's scrape path
Requests(id, exclude_topics, langs) ==
    IF id = "github" /\ exclude_topics = <<>> /\ langs # <<>> THEN Len(langs) ELSE 1

\* One call of top_today: the arguments and the answers its requests meet are
\* drawn, the call has not run
InitAdapter ==
    /\ \E id \in AdapterIds, exclude_topics \in Exclusions, limit \in 0..MaxLimit,
          langs \in Filters :
           \E answers \in UNION {[1..n -> Answers] : n \in 1..2} :
               /\ Len(answers) = Requests(id, exclude_topics, langs)
               /\ (id = "github" /\ exclude_topics = <<>>) =>
                      \A i \in DOMAIN answers : answers[i].kind # "bad_token"
               /\ last = [op |-> "top_today", id |-> id,
                          val |-> [exclude_topics |-> exclude_topics, limit |-> limit,
                                   langs |-> langs, answers |-> answers]]
    /\ written = [p \in Providers |-> None]
    /\ now = StartTime
    /\ ticks = 0
    /\ cachefs = [f \in CacheFiles |-> NoFile]
    /\ cache = None
    /\ mpc = "adapter"
    /\ log = <<>>
    /\ HttpOff
    /\ cfg = [ascii_only |-> FALSE, min_stars |-> None]
    /\ tasks = <<>>
    /\ all_repos = <<>>
    /\ errors = <<>>

\* The call runs; log holds what it returned
CallTopToday ==
    /\ mpc = "adapter"
    /\ log = <<>>
    /\ log' = <<top_today(last.id, last.val.exclude_topics, last.val.limit,
                          last.val.langs, last.val.answers, now)>>
    /\ UNCHANGED <<cachefs, now, ticks, cache, cfg, mpc, tasks, all_repos, errors,
                   apiVars, httpVars>>

NextAdapter == CallTopToday

SpecAdapter == InitAdapter /\ [][NextAdapter]_vars

(***************************************************************************)
(* The adapters' properties.                                               *)
(***************************************************************************)
Called == mpc = "adapter" /\ log # <<>>
Call == last.val
Result == log[1].res

\* C12: a successful top_today of any adapter, for every limit and language
\* filter, returns at most limit records, each with a language the filter
\* matches and each within the adapter's inclusion rule (GitLab at least 10
\* stars, Gitea at least 1, absent stars counted as 0).
C12_Limit ==
    (Called /\ Result.ok) =>
        /\ Len(Result.v) <= Call.limit
        /\ \A i \in DOMAIN Result.v :
               LET r == Result.v[i]
                   stars == IF r.stars_total = None THEN 0 ELSE Unwrap(r.stars_total)
               IN /\ LanguageFilter_matches(Call.langs, r.language)
                  /\ last.id = "gitlab" => stars >= 10
                  /\ last.id = "gitea" => stars >= 1
                  /\ r.provider = last.id

\* GitLab, limit 1, filter "rust": the first project of the answer is dropped
\* by the filter, the second is the one record returned
C12_Witness ==
    /\ Called
    /\ Result.ok
    /\ last.id = "gitlab"
    /\ Call.limit = 1
    /\ Call.langs = <<s_rust>>
    /\ Len(Call.answers[1].items) = 2
    /\ Call.answers[1].items[1].language = Some(s_python)
    /\ Len(Result.v) = 1
    /\ Result.v[1].language = Some(s_Rust)

\* A request that failed: no connection, a non-success status, a body of the
\* wrong shape, or on the scrape path a page without a repository
FailedRequest(i) ==
    LET a == Call.answers[i] IN
    CASE last.id = "github" /\ Call.exclude_topics = <<>> ->
             a.kind # "ok" \/ a.items = <<>>
      [] last.id = "github" -> api_failed(a)
      [] OTHER -> json_failed(a)

\* C13: when a request of top_today fails, or its answer cannot be parsed, or a
\* scraped page holds no repository, top_today returns an error, never a list.
C13_Claim ==
    Called =>
        ((\E i \in DOMAIN Call.answers : FailedRequest(i)) => ~Result.ok)

\* GitHub's scrape path under a language filter: every request failed and
\* top_today returned the empty list
C13_SwallowedErrors ==
    /\ Called
    /\ last.id = "github"
    /\ Call.exclude_topics = <<>>
    /\ Call.langs # <<>>
    /\ \A i \in DOMAIN Call.answers : Call.answers[i].kind = "network"
    /\ Result = Ok_(<<>>)

(***************************************************************************)
(* model.rs: LanguageFilter::matches on its own.                           *)
(***************************************************************************)
\* longest filter list tried
MaxFilterLen == 2

FilterEntries == {s_rust, s_RUST, s_python, <<>>}
FilterLists == UNION {[1..n -> FilterEntries] : n \in 0..MaxFilterLen}
RecordLanguages ==
    {None} \cup {Some(l) : l \in {s_Rust, s_rust, s_RUST, s_python, s_Pythonic, s_Go, <<>>}}

\* One call of matches: the filter's list and the language are drawn
InitFilter ==
    /\ \E ls \in FilterLists, l \in RecordLanguages :
           last = [op |-> "matches", id |-> "", val |-> [languages |-> ls, language |-> l]]
    /\ written = [p \in Providers |-> None]
    /\ now = 0
    /\ ticks = 0
    /\ cachefs = [f \in CacheFiles |-> NoFile]
    /\ cache = None
    /\ mpc = "filter"
    /\ log = <<>>
    /\ HttpOff
    /\ cfg = [ascii_only |-> FALSE, min_stars |-> None]
    /\ tasks = <<>>
    /\ all_repos = <<>>
    /\ errors = <<>>

CallMatches ==
    /\ mpc = "filter"
    /\ log = <<>>
    /\ log' = <<LanguageFilter_matches(last.val.languages, last.val.language)>>
    /\ UNCHANGED <<cachefs, now, ticks, cache, cfg, mpc, tasks, all_repos, errors,
                   apiVars, httpVars>>

NextFilter == CallMatches

SpecFilter == InitFilter /\ [][NextFilter]_vars

\* A string with its ASCII capitals replaced by the small letters
Lowered(s) == [i \in DOMAIN s |-> IF s[i] \in 65..90 THEN s[i] + 32 ELSE s[i]]

\* C14: matches returns a truth value for every input; true for an empty
\* filter, whatever the language, absent included; for a non-empty filter true
\* exactly when the language is present and is, ASCII case ignored, the whole
\* of some entry ("Pythonic" does not match "python"), false when absent.
C14_Matches ==
    (mpc = "filter" /\ log # <<>>) =>
        LET ls == last.val.languages
            l == last.val.language
        IN /\ log[1] \in BOOLEAN
           /\ ls = <<>> => log[1] = TRUE
           /\ (ls # <<>> /\ l = None) => log[1] = FALSE
           /\ (ls # <<>> /\ l # None) =>
                  (log[1] <=> \E i \in DOMAIN ls : Lowered(ls[i]) = Lowered(Unwrap(l)))
           /\ (ls = <<s_python>> /\ l = Some(s_Pythonic)) => log[1] = FALSE
           /\ (ls = <<s_rust>> /\ l = Some(s_RUST)) => log[1] = TRUE

\* "Pythonic" against the filter "python", "rust": no match
C14_Witness ==
    /\ mpc = "filter"
    /\ log = <<FALSE>>
    /\ last.val.languages = <<s_python, s_rust>>
    /\ last.val.language = Some(s_Pythonic)

(***************************************************************************)
(* main.rs after the loop: the fatal decision and the two filters, on      *)
(* merged lists of records of every kind the filters tell apart.           *)
(***************************************************************************)
\* longest merged list tried
MaxMerged == 2

\* Names with ASCII ratios 1, 4/5 and 2/4; descriptions absent, empty, with
\* ratios 7/10 and 6/10
n_ascii == <<97, 47, 98>>
n_edge == <<97, 47, 98, 99, 27979>>
n_low == <<27979, 35797, 47, 114>>
d_empty == <<>>
d_edge == <<97, 98, 99, 100, 101, 102, 103, 27979, 35797, 26085>>
d_low == <<97, 98, 99, 100, 101, 102, 27979, 35797, 26085, 26412>>

OutRepo(nm, desc, tot) ==
    Repo("github", icon("github"), nm, None, desc, "u", None, tot, None, <<>>)

\* Every name with every description, and every star count
OutRepos ==
    {OutRepo(nm, desc, Some(10)) :
         nm \in {n_ascii, n_edge, n_low},
         desc \in {None, Some(d_empty), Some(d_edge), Some(d_low)}}
    \cup {OutRepo(n_ascii, None, tot) : tot \in {None, Some(0), Some(9), Some(11)}}
MergedLists == UNION {[1..n -> OutRepos] : n \in 0..MaxMerged}

\* The --min-stars values tried here
OutMinStars == {None, Some(0), Some(1), Some(10)}

\* After the loop of an invocation without cache whose one provider returned
\* res: a list of MergedLists or an error
InitOutput ==
    /\ \E res \in {Err_("github")} \cup {Ok_(l) : l \in MergedLists} :
           /\ tasks = <<[NewTask("github", None) EXCEPT
                            !.pc = "done", !.fetches = 1, !.fetched = Some(res)]>>
           /\ log = <<[task |-> 1, res |-> res]>>
           /\ all_repos = Collected(<<>>, res)
           /\ errors = CollectedErrors(<<>>, res)
    /\ mpc = "collect"
    /\ cfg = [ascii_only |-> FALSE, min_stars |-> None]
    /\ cachefs = [f \in CacheFiles |-> NoFile]
    /\ now = StartTime
    /\ ticks = 0
    /\ cache = None
    /\ ApiOff
    /\ HttpOff

NextOutput ==
    /\ mpc = "collect"
    /\ \E ascii_only \in BOOLEAN, min_stars \in OutMinStars : Finish(ascii_only, min_stars)

SpecOutput == InitOutput /\ [][NextOutput]_vars

\* The elements of s that are in the set keep, in their order in s
RECURSIVE Retained(_, _)
Retained(s, keep) ==
    IF s = <<>> THEN <<>>
    ELSE (IF s[1] \in keep THEN <<s[1]>> ELSE <<>>) \o Retained(SubSeq(s, 2, Len(s)), keep)

Records(s) == {s[i] : i \in DOMAIN s}

\* The number of ASCII characters of a string
AsciiCount(s) == Cardinality({i \in DOMAIN s : s[i] < 128})

\* Fewer than 80% of the name's characters are ASCII, or the description is
\* present and fewer than 70% of its characters are; an empty string has ratio 1
NotMostlyAscii(r) ==
    \/ r.name # <<>> /\ 5 * AsciiCount(r.name) < 4 * Len(r.name)
    \/ /\ r.description # None
       /\ Unwrap(r.description) # <<>>
       /\ 10 * AsciiCount(Unwrap(r.description)) < 7 * Len(Unwrap(r.description))

\* The merged list as the ASCII filter leaves it under the configuration
AfterAscii ==
    IF cfg.ascii_only
    THEN Retained(Merged(log), {r \in Records(Merged(log)) : ~NotMostlyAscii(r)})
    ELSE Merged(log)

\* The stars of a record, absent counted as 0
Stars(r) == IF r.stars_total = None THEN 0 ELSE Unwrap(r.stars_total)

\* C15: with a threshold m the output holds exactly the records with at least m
\* stars, in merged order, absent stars counted as 0: a record without stars is
\* removed under every positive m and kept under m = 0; with no threshold this
\* filter removes nothing.
C15_MinStars ==
    mpc = "done" =>
        /\ cfg.min_stars = None => all_repos = AfterAscii
        /\ cfg.min_stars # None =>
               LET m == Unwrap(cfg.min_stars) IN
               /\ all_repos = Retained(AfterAscii, {r \in Records(AfterAscii) : Stars(r) >= m})
               /\ m > 0 => \A i \in DOMAIN all_repos : all_repos[i].stars_total # None
               /\ m = 0 => all_repos = AfterAscii

\* Threshold 10 on a record with 9 stars and one with 11: the second is the output
C15_Witness ==
    /\ mpc = "done"
    /\ cfg = [ascii_only |-> FALSE, min_stars |-> Some(10)]
    /\ Merged(log) = <<OutRepo(n_ascii, None, Some(9)), OutRepo(n_ascii, None, Some(11))>>
    /\ all_repos = <<OutRepo(n_ascii, None, Some(11))>>

\* Threshold 0 keeps a record without stars
C15_WitnessZero ==
    /\ mpc = "done"
    /\ cfg.min_stars = Some(0)
    /\ all_repos = <<OutRepo(n_ascii, None, None)>>

\* The merged list as the minimum-stars filter leaves a list under the
\* configuration
AfterStars(s) ==
    IF cfg.min_stars = None THEN s
    ELSE Retained(s, {r \in Records(s) : Stars(r) >= Unwrap(cfg.min_stars)})

\* C16: with the ASCII filter on, a record is dropped exactly when fewer than
\* 80% of its name's characters are ASCII, or its description is present with
\* fewer than 70% of its characters ASCII; an empty string has ratio 1 and a
\* ratio at the threshold is kept; the records kept stay in merged order, and
\* with the filter off it drops nothing.
C16_AsciiOnly ==
    mpc = "done" =>
        /\ all_repos = AfterStars(AfterAscii)
        /\ cfg.ascii_only =>
               \A r \in Records(Merged(log)) :
                   Stars(r) >= unwrap_or(cfg.min_stars, 0) =>
                       (r \in Records(all_repos) <=> ~NotMostlyAscii(r))
        /\ ~cfg.ascii_only => all_repos = AfterStars(Merged(log))

\* A name at 4/5 with a description at 7/10 is kept, a description at 6/10 is
\* dropped
C16_Witness ==
    /\ mpc = "done"
    /\ cfg = [ascii_only |-> TRUE, min_stars |-> None]
    /\ Merged(log) = <<OutRepo(n_ascii, Some(d_low), Some(10)),
                       OutRepo(n_edge, Some(d_edge), Some(10))>>
    /\ all_repos = <<OutRepo(n_edge, Some(d_edge), Some(10))>>

\* C17: every record top_today returns carries the adapter's id and icon and a
\* name and a url that are not empty, whatever answer the adapter accepted.
C17_Claim ==
    (Called /\ Result.ok) =>
        \A i \in DOMAIN Result.v :
            /\ Result.v[i].provider = last.id
            /\ Result.v[i].icon = icon(last.id)
            /\ Result.v[i].name # <<>>
            /\ Result.v[i].url # <<>>

\* Gitea accepted an answer whose repository has an empty full_name and
\* html_url, and returned it as a record
C17_EmptyName ==
    /\ Called
    /\ last.id = "gitea"
    /\ Result.ok
    /\ \E i \in DOMAIN Result.v : Result.v[i].name = <<>> /\ Result.v[i].url = <<>>

\* What C17 says of provider and icon alone: set by the adapter
C17_ProviderIcon ==
    (Called /\ Result.ok) =>
        \A i \in DOMAIN Result.v :
            Result.v[i].provider = last.id /\ Result.v[i].icon = icon(last.id)

(***************************************************************************)
(* main.rs: invocations one after the other on one cache directory, each   *)
(* with its own language filter, limit and cache options, for one enabled  *)
(* provider.  `last` holds the invocation's arguments.                      *)
(***************************************************************************)
\* most invocations in a row
MaxRuns == 2

RunIds == {"gitea", "github"}
RunFilters == {<<>>, <<s_rust>>}
RunLimits == {1, MaxLimit}
\* What the provider's one request can meet in an invocation: no connection,
\* no repository, a Rust and a Python repository
RunAnswers ==
    {[kind |-> "network", items |-> <<>>],
     [kind |-> "ok", items |-> <<>>],
     [kind |-> "ok",
      items |-> <<Item(<<99, 47, 100>>, Some(s_python), Some(50), <<s_AI, s_python>>,
                       Some(DateText(FALSE, DateTime(0, 0))), <<47, 99, 47, 100>>),
                  Item(<<97, 47, 98>>, Some(s_Rust), Some(100), <<s_rust, s_cli>>,
                       Some(DateText(TRUE, DateTime(5, 0))), <<47, 97, 47, 98>>)>>]}
\* The time between the start of two invocations: none, a minute, more
RunGaps == {0, SecsPerMin, SecsPerMin + 1}

RunArgs(id, langs, limit, n) ==
    [op |-> "run", id |-> id, val |-> [langs |-> langs, limit |-> limit, run |-> n]]

InitRuns ==
    /\ \E id \in RunIds, langs \in RunFilters, limit \in RunLimits :
           last = RunArgs(id, langs, limit, 1)
    /\ written = [p \in Providers |-> None]
    /\ cachefs = [f \in CacheFiles |-> NoFile]
    /\ now = StartTime
    /\ ticks = 0
    /\ cache = None
    /\ cfg = [ascii_only |-> FALSE, min_stars |-> None]
    /\ mpc = "start"
    /\ tasks = <<>>
    /\ all_repos = <<>>
    /\ errors = <<>>
    /\ log = <<>>
    /\ HttpOff

\* main up to the fan-out, the one provider enabled and built
RunSetup ==
    /\ mpc = "start"
    /\ \E no_cache \in BOOLEAN, ttl_mins \in 0..MaxTtlMins :
           Setup(no_cache, ttl_mins, TRUE, <<last.id>>, {1})

\* top_today of the provider with the invocation's limit and filter
RunFetch ==
    /\ mpc = "collect"
    /\ \E a \in RunAnswers :
           TaskFetch(1, top_today(last.id, <<>>, last.val.limit, last.val.langs,
                                  <<a>>, now).res)

RunStore ==
    /\ mpc = "collect"
    /\ \E io \in IoOutcomes : TaskStore(1, io)

RunFinish ==
    /\ mpc = "collect"
    /\ Finish(FALSE, None)

\* The invocation is over; the next one starts, at once or after more than a
\* minute, with its own arguments.  `written` keeps the list and the time of
\* the provider's last cache write that succeeded, while its file is as that
\* write left it
RunAgain ==
    /\ mpc \in {"done", "failed: All providers failed"}
    /\ last.val.run < MaxRuns
    /\ \E langs \in RunFilters, limit \in RunLimits :
           last' = RunArgs(last.id, langs, limit, last.val.run + 1)
    /\ \E gap \in RunGaps : now' = now + gap
    /\ mpc' = "start"
    /\ cache' = None
    /\ tasks' = <<>>
    /\ all_repos' = <<>>
    /\ errors' = <<>>
    /\ log' = <<>>
    /\ written' = [written EXCEPT ![last.id] =
                      CASE tasks = <<>> -> @
                        [] tasks[1].stored = "ok" ->
                             Some([repos |-> Unwrap(tasks[1].fetched).v, at |-> now])
                        [] tasks[1].stored = "fail_partial" -> None
                        [] OTHER -> @]
    /\ UNCHANGED <<cachefs, ticks, cfg, httpVars>>

NextRuns ==
    \/ RunSetup
    \/ mpc = "collect" /\ tasks[1].pc = "lookup" /\ TaskLookup(1)
    \/ RunFetch
    \/ RunStore
    \/ RunFinish
    \/ RunAgain

SpecRuns == InitRuns /\ [][NextRuns]_vars

\* C18: in every invocation every record merged for the provider satisfies the
\* invocation's language filter, and no more records are merged for it than
\* the invocation's limit, also when they come from a cache entry an earlier
\* invocation wrote.
C18_Claim ==
    (mpc = "collect" /\ last.op = "run") =>
        /\ Len(all_repos) <= last.val.limit
        /\ \A i \in DOMAIN all_repos :
               LanguageFilter_matches(last.val.langs, all_repos[i].language)

\* An invocation with the filter "rust" and limit 1 merged, from the cache, a
\* Python record and two records
C18_StaleFilter ==
    /\ mpc = "collect"
    /\ last.op = "run"
    /\ last.val.run = 2
    /\ last.val.langs = <<s_rust>>
    /\ last.val.limit = 1
    /\ Len(all_repos) = 2
    /\ all_repos[1].language = Some(s_python)
    /\ tasks[1].fetches = 0

\* The entry of the invocation's provider, when its file holds one
RunFileName == cache_file(last.id)
HasEntry == cachefs[RunFileName].kind = "file" /\ DeEntry(cachefs[RunFileName].text) # None
RunEntry == Unwrap(DeEntry(cachefs[RunFileName].text))

\* C19: with a cache, an empty list that top_today returned is written to the
\* cache as any list is, and an invocation that finds an entry with an empty
\* list no older than the TTL reports the empty list without calling top_today.
C19_EmptyCached ==
    (mpc \in {"collect", "done", Fatal} /\ last.op = "run") =>
        /\ (/\ tasks[1].pc = "done" /\ cache # None
            /\ tasks[1].fetched = Some(Ok_(<<>>))) =>
               /\ tasks[1].stored # "none"
               /\ tasks[1].stored = "ok" =>
                      /\ cachefs[RunFileName] =
                             File(SerEntry([timestamp |-> now, repos |-> <<>>]))
                      /\ Cache_get(Unwrap(cache), cachefs, last.id, now) = Some(<<>>)
        /\ (/\ tasks[1].seen # None
            /\ Unwrap(tasks[1].seen).kind = "file"
            /\ DeEntry(Unwrap(tasks[1].seen).text) # None
            /\ CachedList(1) = <<>>
            /\ now - Unwrap(DeEntry(Unwrap(tasks[1].seen).text)).timestamp
                   <= Unwrap(cache).ttl_secs) =>
               /\ tasks[1].pc = "done"
               /\ tasks[1].fetches = 0
               /\ log = <<[task |-> 1, res |-> Ok_(<<>>)]>>
               /\ all_repos = <<>>

\* The second invocation, a minute after the first one cached an empty list,
\* ended without a request and without a record
C19_Witness ==
    /\ mpc = "done"
    /\ last.op = "run"
    /\ last.val.run = 2
    /\ now = StartTime + SecsPerMin
    /\ Met(1) = "hit"
    /\ CachedList(1) = <<>>
    /\ tasks[1].fetches = 0
    /\ all_repos = <<>>
    /\ cachefs[RunFileName] = File(SerEntry([timestamp |-> StartTime, repos |-> <<>>]))

\* The empty list cached was GitHub's answer to requests that all failed
C19_WitnessStore ==
    /\ last.op = "run"
    /\ last.id = "github"
    /\ last.val.langs = <<s_rust>>
    /\ tasks # <<>>
    /\ tasks[1].pc = "done"
    /\ tasks[1].fetched = Some(Ok_(<<>>))
    /\ tasks[1].stored = "ok"
    /\ HasEntry
    /\ RunEntry.repos = <<>>

C20_WitnessNoCache ==
    /\ mpc = "done"
    /\ cache = None
    /\ all_repos # <<>>
    /\ cachefs \in PriorDirs
    /\ \E f \in CacheFiles : cachefs[f].kind = "file" /\ DeEntry(cachefs[f].text) # None

\* C21: the fatal failure is decided on the merged list as it is before the
\* ASCII-only and minimum-stars filters: an invocation whose providers
\* returned a record ends successfully with the filtered list, even when a
\* provider failed and the filters leave no record, and a fatal failure is
\* never the filters' doing.
C21_DecidedBeforeFilters ==
    Decided =>
        /\ Merged(log) # <<>> =>
               /\ mpc = "done"
               /\ all_repos = Filtered(Merged(log), cfg.ascii_only, cfg.min_stars)
        /\ mpc = Fatal => (Merged(log) = <<>> /\ all_repos = <<>>)

\* One provider failed, the other returned two records, the filters removed
\* both and the invocation succeeded
C21_Witness ==
    /\ mpc = "done"
    /\ errors # <<>>
    /\ Len(Merged(log)) = 2
    /\ all_repos = <<>>
    /\ cfg.min_stars = Some(101)

\* C22: a task that missed the cache, got a list from top_today and wrote it
\* with success leaves in the provider's file exactly that list stamped with
\* the clock reading of the write; an invocation with a cache whose lookup
\* comes no more than the TTL after that reading is served that list without
\* calling top_today.
C22_WriteThenHit ==
    (mpc \in {"collect", "done", Fatal} /\ last.op = "run") =>
        /\ (tasks[1].pc = "done" /\ tasks[1].stored = "ok") =>
               /\ Met(1) \in Stale
               /\ tasks[1].fetches = 1
               /\ cachefs[RunFileName] =
                      File(SerEntry([timestamp |-> now,
                                     repos |-> Unwrap(tasks[1].fetched).v]))
               /\ HasEntry
               /\ RunEntry = [timestamp |-> now, repos |-> Unwrap(tasks[1].fetched).v]
        /\ (/\ IsSome(written[last.id])
            /\ cache # None
            /\ tasks[1].pc # "lookup"
            /\ now - WrittenAt(last.id) <= Ttl) =>
               /\ tasks[1].pc = "done"
               /\ tasks[1].fetches = 0
               /\ log = <<[task |-> 1, res |-> Ok_(WrittenRepos(last.id))]>>

\* The second invocation, a minute after the first wrote two records, with a
\* TTL of a minute: the two records, and no call of top_today
C22_Witness ==
    /\ mpc = "done"
    /\ last.op = "run"
    /\ last.val.run = 2
    /\ cache # None
    /\ IsSome(written[last.id])
    /\ Len(WrittenRepos(last.id)) = 2
    /\ WrittenAt(last.id) = StartTime
    /\ now = StartTime + Ttl
    /\ Ttl = SecsPerMin
    /\ tasks[1].fetches = 0
    /\ all_repos = WrittenRepos(last.id)

\* C23: Cache::get changes no cache file, whatever it returns: the entry of a
\* set is in its file, with the timestamp of the set, until a set, a clear or
\* another program changes the file; get reports it while its age is at most
\* the TTL and absent afterwards, however often it was read.
C23_GetFrame ==
    /\ [](\A p \in Providers :
              IsSome(written[p]) =>
                  cachefs[cache_file(p)] =
                      File(SerEntry([timestamp |-> WrittenAt(p),
                                     repos |-> WrittenRepos(p)])))
    /\ []((LastGet /\ IsSome(written[last.id])) =>
              (IsSome(last.val) <=> now - WrittenAt(last.id) <= Ttl))
    /\ [][last'.op = "get" => cachefs' = cachefs]_vars

\* get found the entry of an earlier set expired, and the entry is in its file
C23_Witness ==
    /\ LastGet
    /\ last.val = None
    /\ IsSome(written[last.id])
    /\ now - WrittenAt(last.id) > Ttl
    /\ WrittenRepos(last.id) # <<>>
    /\ cachefs[cache_file(last.id)] =
           File(SerEntry([timestamp |-> WrittenAt(last.id),
                          repos |-> WrittenRepos(last.id)]))

\* The entry in the file of the last call's provider
LastFile == cachefs[cache_file(last.id)]
LastEntry == Unwrap(DeEntry(LastFile.text))

\* C24: the age of an entry is now - timestamp cut off at 0: get reports an
\* entry whose timestamp is later than the clock as a hit, with its list,
\* under every TTL, TTL = 0 included.
C24_SkewIsHit ==
    (/\ LastGet
     /\ LastFile.kind = "file"
     /\ DeEntry(LastFile.text) # None
     /\ LastEntry.timestamp > now) =>
        /\ saturating_sub(now, LastEntry.timestamp) = 0
        /\ last.val = Some(LastEntry.repos)

\* Under TTL = 0, get served an entry stamped later than the clock
C24_Witness ==
    /\ LastGet
    /\ Ttl = 0
    /\ LastFile.kind = "file"
    /\ DeEntry(LastFile.text) # None
    /\ LastEntry.timestamp > now
    /\ last.val = Some(LastEntry.repos)
    /\ LastEntry.repos # <<>>

\* C25: an invocation runs at most one task per provider id, at most three in
\* all, and no two of its tasks read or write the same cache file.
C25_Claim ==
    /\ Len(tasks) <= Cardinality(Providers)
    /\ \A i, j \in DOMAIN tasks :
           i # j =>
               /\ tasks[i].id # tasks[j].id
               /\ cache_file(tasks[i].id) # cache_file(tasks[j].id)

\* Two tasks of one invocation, both for github, both past top_today and about
\* to write github.json
C25_SharedFile ==
    /\ mpc = "collect"
    /\ Len(tasks) = 2
    /\ tasks[1].id = "github"
    /\ tasks[2].id = "github"
    /\ tasks[1].pc = "store"
    /\ tasks[2].pc = "store"
    /\ tasks[1].repos # tasks[2].repos

\* With the providers taken from the configuration file, the tasks are for
\* different providers and files
C25_Configured ==
    \A i, j \in DOMAIN tasks :
        i # j => cache_file(tasks[i].id) # cache_file(tasks[j].id)

\* The list the upstream gave to the call: the items of the answer, or on
\* GitHub's scrape path under a language filter the pages that came, in the
\* order of the filter's entries
ScrapePath == last.id = "github" /\ Call.exclude_topics = <<>>
Upstream ==
    IF ScrapePath /\ Call.langs # <<>>
    THEN trending_of(Call.answers, Len(Call.langs))
    ELSE Call.answers[1].items

\* The language the adapter gives an upstream item
LanguageOf(it) == IF last.id = "gitlab" THEN extract_language(it.topics) ELSE it.language

\* The adapter's inclusion rule
Included(it) ==
    CASE last.id = "gitlab" -> (IF it.stars = None THEN 0 ELSE Unwrap(it.stars)) >= 10
      [] last.id = "gitea" -> (IF it.stars = None THEN 0 ELSE Unwrap(it.stars)) >= 1
      [] ScrapePath -> TRUE
      [] OTHER -> ~\E i \in DOMAIN it.topics, j \in DOMAIN Call.exclude_topics :
                      eq_ignore_ascii_case(it.topics[i], Call.exclude_topics[j])

\* The positions of Upstream that pass the inclusion rule and the language
\* filter, and the k-th of them
Passing ==
    {i \in DOMAIN Upstream :
        Included(Upstream[i]) /\ LanguageFilter_matches(Call.langs, LanguageOf(Upstream[i]))}
KthPassing(k) == CHOOSE i \in Passing : Cardinality({j \in Passing : j < i}) = k - 1

\* Record r is made from upstream item it
MadeFrom(r, it) ==
    /\ r.name = it.name
    /\ r.url = (IF ScrapePath THEN s_github_com \o it.url ELSE it.url)
    /\ r.language = LanguageOf(it)
    /\ r.stars_total = it.stars

\* C26: what top_today returns is, in upstream order, the first `limit` of the
\* upstream items that pass the adapter's inclusion rule and the language
\* filter: as many records as there are such items, up to limit, the k-th
\* record made from the k-th such item.
C26_FirstPassing ==
    (Called /\ Result.ok) =>
        /\ Len(Result.v) =
               (IF Cardinality(Passing) < Call.limit THEN Cardinality(Passing)
                ELSE Call.limit)
        /\ \A k \in DOMAIN Result.v : MadeFrom(Result.v[k], Upstream[KthPassing(k)])

\* Gitea, limit 1, filter python and RUST: both items of the answer pass, a
\* Python one with 50 stars and then a Rust one with 100; the record is the
\* first
C26_Witness ==
    /\ Called
    /\ Result.ok
    /\ last.id = "gitea"
    /\ Call.limit = 1
    /\ Call.langs = <<s_python, s_RUST>>
    /\ Len(Upstream) = 2
    /\ Upstream[1].language = Some(s_python)
    /\ Upstream[2].language = Some(s_Rust)
    /\ Cardinality(Passing) = 2
    /\ Len(Result.v) = 1
    /\ Result.v[1].stars_total = Some(50)

\* The queries of the call, from its arguments
ExpectedQueries ==
    IF ScrapePath /\ Call.langs # <<>> THEN Len(Call.langs) ELSE 1

\* The pages of the scrapes 1..n that came with a repository, one after the other
RECURSIVE PagesUpTo(_)
PagesUpTo(n) ==
    IF n = 0 THEN <<>>
    ELSE PagesUpTo(n - 1) \o (IF FailedRequest(n) THEN <<>> ELSE Call.answers[n].items)

\* The requests of the call that were sent: every query but one refused for
\* its token
Sent == Cardinality({i \in 1..log[1].queries : Call.answers[i].kind # "bad_token"})

C27_NoRequest ==
    /\ Called
    /\ last.id = "gitlab"
    /\ Call.answers[1].kind = "bad_token"
    /\ ~Result.ok
    /\ Sent = 0

HasExcludedTopic(topics) ==
    \E i \in DOMAIN topics, j \in DOMAIN Call.exclude_topics :
        Lowered(topics[i]) = Lowered(Call.exclude_topics[j])

\* The items of the search API's answer that pass the language filter and have
\* no excluded topic
NotExcluded ==
    {i \in DOMAIN Call.answers[1].items :
        /\ LanguageFilter_matches(Call.langs, Call.answers[1].items[i].language)
        /\ ~HasExcludedTopic(Call.answers[1].items[i].topics)}

\* C28: with a non-empty exclusion list GitHub's top_today returns no record
\* with a topic that is, ASCII case ignored, an entry of the list, and drops
\* for its topics no repository without such a topic: up to the limit, the
\* records are the items that pass the language filter and have none.
C28_TopicExclusion ==
    (Called /\ last.id = "github" /\ Call.exclude_topics # <<>> /\ Result.ok) =>
        /\ \A k \in DOMAIN Result.v : ~HasExcludedTopic(Result.v[k].topics)
        /\ Len(Result.v) =
               (IF Cardinality(NotExcluded) < Call.limit THEN Cardinality(NotExcluded)
                ELSE Call.limit)
        /\ \A k \in DOMAIN Result.v :
               \E i \in NotExcluded :
                   /\ Result.v[k].name = Call.answers[1].items[i].name
                   /\ Result.v[k].topics = Call.answers[1].items[i].topics

\* Exclusion list "ai", no language filter, limit 2: of a repository with the
\* topic "AI" and one with the topics "rust" and "cli" the second is returned
C28_Witness ==
    /\ Called
    /\ last.id = "github"
    /\ Call.exclude_topics = <<s_ai>>
    /\ Call.langs = <<>>
    /\ Call.limit = 2
    /\ Len(Call.answers[1].items) = 2
    /\ Call.answers[1].items[1].topics = <<s_AI, s_python>>
    /\ Call.answers[1].items[2].topics = <<s_rust, s_cli>>
    /\ Result.ok
    /\ Len(Result.v) = 1
    /\ Result.v[1].topics = <<s_rust, s_cli>>

(***************************************************************************)
(* providers/gitlab.rs: extract_language on its own.                       *)
(***************************************************************************)
\* longest topic list tried
MaxTopics == 2

s_golang == <<103, 111, 108, 97, 110, 103>>
s_GoLang == <<71, 111, 76, 97, 110, 103>>
s_cpp == <<99, 43, 43>>
s_CSHARP == <<67, 35>>
s_rustlang == <<114, 117, 115, 116, 108, 97, 110, 103>>
\* "Kotlin" spelled with the Kelvin sign U+212A
s_Kelvin_otlin == <<8490, 111, 116, 108, 105, 110>>

\* The topics tried: language tags in several spellings, topics that contain a
\* tag, topics that are none, the empty topic
Topics ==
    {s_rust, s_RUST, s_golang, s_GoLang, s_cpp, s_CSHARP, s_rustlang, s_Pythonic,
     s_python, s_cli, s_Kelvin_otlin, <<>>}
TopicLists == UNION {[1..n -> Topics] : n \in 0..MaxTopics}

\* One call of extract_language: the topics are drawn
InitLanguage ==
    /\ \E topics \in TopicLists :
           last = [op |-> "extract_language", id |-> "gitlab", val |-> topics]
    /\ written = [p \in Providers |-> None]
    /\ now = 0
    /\ ticks = 0
    /\ cachefs = [f \in CacheFiles |-> NoFile]
    /\ cache = None
    /\ mpc = "language"
    /\ log = <<>>
    /\ HttpOff
    /\ cfg = [ascii_only |-> FALSE, min_stars |-> None]
    /\ tasks = <<>>
    /\ all_repos = <<>>
    /\ errors = <<>>

CallExtractLanguage ==
    /\ mpc = "language"
    /\ log = <<>>
    /\ log' = <<extract_language(last.val)>>
    /\ UNCHANGED <<cachefs, now, ticks, cache, cfg, mpc, tasks, all_repos, errors,
                   apiVars, httpVars>>

NextLanguage == CallExtractLanguage

SpecLanguage == InitLanguage /\ [][NextLanguage]_vars

\* The table as a set, and the positions of the topics that are, lower-cased,
\* in it
Vocabulary == {languages[k] : k \in DOMAIN languages}
Tags == {i \in DOMAIN last.val : str_to_lowercase(last.val[i]) \in Vocabulary}
FirstTag == last.val[CHOOSE i \in Tags : \A j \in Tags : i <= j]

\* C29: extract_language returns absent exactly when no topic is, lower-cased,
\* an entry of the table; otherwise the first such topic decides: "Go" for
\* golang, "C++" for c++, "C#" for c#, and for any other the topic itself with
\* its first letter made a capital and the rest as it is.  A topic that only
\* contains an entry is no such topic.
C29_ExtractLanguage ==
    (mpc = "language" /\ log # <<>>) =>
        /\ log[1] = None <=> Tags = {}
        /\ Tags # {} =>
               LET lower == str_to_lowercase(FirstTag)
                   r == Unwrap(log[1])
               IN /\ log[1] # None
                  /\ lower = s_golang => r = s_Go
                  /\ lower = s_cpp => r = s_Cpp
                  /\ lower = <<99, 35>> => r = s_Csharp
                  /\ lower \notin {s_golang, s_cpp, <<99, 35>>} =>
                         /\ Len(r) = Len(FirstTag)
                         /\ r[1] = to_uppercase(FirstTag[1])
                         /\ \A j \in 2..Len(r) : r[j] = FirstTag[j]
        /\ \A i \in DOMAIN last.val :
               last.val[i] \in {s_rustlang, s_Pythonic, s_cli} => i \notin Tags

\* "rustlang" and then "GoLang": the language is "Go"
C29_Witness ==
    /\ mpc = "language"
    /\ log # <<>>
    /\ last.val = <<s_rustlang, s_GoLang>>
    /\ log[1] = Some(s_Go)

\* "Pythonic" and then "rust": the language is "Rust"; and "RUST" stays "RUST"
C29_WitnessCapital ==
    /\ mpc = "language"
    /\ log # <<>>
    /\ \/ last.val = <<s_Pythonic, s_rust>> /\ log[1] = Some(s_Rust)
       \/ last.val = <<s_RUST>> /\ log[1] = Some(s_RUST)

(***************************************************************************)
(* render.rs: render_motd.  The column widths are computed from the list,  *)
(* then render_repo_motd prints one row per record.  The widths are usize: *)
(* a subtraction below zero panics in a build with overflow checks and     *)
(* wraps around in a build without.                                        *)
(***************************************************************************)
\* most records rendered
MaxRows == 2

\* `.min(40)` on the name width, `.min(15)` on the language width
NameCap == 40
LangCap == 15

\* A string of n letters; "-", "..", spaces
Str(n) == [i \in 1..n |-> 97]
s_dash == <<45>>
s_dots == <<46, 46>>
Spaces(n) == [i \in 1..n |-> 32]

\* The records tried, by the fields the columns are made of: names up to one
\* character above the cap, languages absent, empty, and up to one above the cap
RenderRepos ==
    {[name |-> Str(n), language |-> l] :
        n \in {0, 2, NameCap + 1},
        l \in {None, Some(Str(0)), Some(Str(1)), Some(Str(4)), Some(Str(LangCap + 1))}}
RenderLists == UNION {[1..n -> RenderRepos] : n \in 0..MaxRows}

\* Iterator::max().unwrap_or(0) of a set of lengths, usize::min
MaxOr0(S) == IF S = {} THEN 0 ELSE CHOOSE m \in S : \A x \in S : x <= m
Min(a, b) == IF a < b THEN a ELSE b

\* Lines 30-35 and 37-42
max_name_len(repos) == Min(MaxOr0({Len(repos[i].name) : i \in DOMAIN repos}), NameCap)
max_lang_len(repos) ==
    Min(MaxOr0({Len(Unwrap(repos[i].language)) :
                    i \in {j \in DOMAIN repos : IsSome(repos[j].language)}}), LangCap)

\* a - b on usize: the difference; below zero None (the panic) with overflow
\* checks, and without them the wrapped value, usize::MAX + 1 + a - b, shown
\* at the width of the integers here (2^31 for 2^64)
usize_sub(a, b, overflow_checks) ==
    IF a >= b THEN Some(a - b)
    ELSE IF overflow_checks THEN None
    ELSE Some((2147483647 - b) + a + 1)

\* chars().take(n).collect()
TakeChars(s, n) == SubSeq(s, 1, Min(n, Len(s)))

\* format!("{:<width$}", s)
PadTo(s, width) == IF Len(s) < width THEN s \o Spaces(width - Len(s)) ELSE s

\* Lines 138-144 and 148-155 for a text and its column width: the padded
\* column, or None when the subtraction panics
Column(text, width, overflow_checks) ==
    IF Len(text) > width
    THEN LET n == usize_sub(width, 2, overflow_checks)
         IN IF n = None THEN None
            ELSE Some(PadTo(TakeChars(text, Unwrap(n)) \o s_dots, width))
    ELSE Some(PadTo(text, width))

\* repo.language.as_deref().unwrap_or("-")
lang_display(repo) == IF IsSome(repo.language) THEN Unwrap(repo.language) ELSE s_dash

\* One call of render_motd: the list and the build are drawn
InitRender ==
    /\ \E repos \in RenderLists :
           last = [op |-> "render_motd", id |-> "", val |-> repos]
    /\ \E overflow_checks \in BOOLEAN : cfg = [overflow_checks |-> overflow_checks]
    /\ written = [p \in Providers |-> None]
    /\ now = 0
    /\ ticks = 0
    /\ cachefs = [f \in CacheFiles |-> NoFile]
    /\ cache = None
    /\ mpc = "render"
    /\ log = <<>>
    /\ HttpOff
    /\ tasks = <<>>
    /\ all_repos = <<>>
    /\ errors = <<>>

\* render_motd up to the loop: the message for an empty list, or the widths
RenderMotd ==
    /\ mpc = "render"
    /\ mpc' = IF last.val = <<>> THEN "rendered" ELSE "rows"
    /\ UNCHANGED <<cachefs, now, ticks, cache, cfg, tasks, all_repos, errors, log,
                   apiVars, httpVars>>

\* render_repo_motd for the next record: its row is printed, or the program
\* panics
RenderRepo ==
    /\ mpc = "rows"
    /\ LET repo == last.val[Len(log) + 1]
           name == Column(repo.name, max_name_len(last.val), cfg.overflow_checks)
           lang == Column(lang_display(repo), max_lang_len(last.val), cfg.overflow_checks)
       IN IF name = None \/ lang = None
          THEN /\ mpc' = "panicked: attempt to subtract with overflow"
               /\ UNCHANGED log
          ELSE /\ log' = Append(log, [name |-> Unwrap(name), lang |-> Unwrap(lang)])
               /\ mpc' = IF Len(log) + 1 = Len(last.val) THEN "rendered" ELSE "rows"
    /\ UNCHANGED <<cachefs, now, ticks, cache, cfg, tasks, all_repos, errors,
                   apiVars, httpVars>>

NextRender ==
    \/ RenderMotd
    \/ RenderRepo

SpecRender == InitRender /\ [][NextRender]_vars

Panicked == mpc = "panicked: attempt to subtract with overflow"
\* The records render_repo_motd was called for
Rendered ==
    IF mpc \in {"rows", "rendered"} THEN 1..Len(log)
    ELSE IF Panicked THEN 1..(Len(log) + 1)
    ELSE {}

\* C30: whenever render_repo_motd truncates a name or a language label, the
\* width of the column is at least 2, so that `name_width - 2` and
\* `lang_width - 2` stay at or above zero.
C30_Claim ==
    \A i \in Rendered :
        /\ Len(last.val[i].name) > max_name_len(last.val) => max_name_len(last.val) >= 2
        /\ Len(lang_display(last.val[i])) > max_lang_len(last.val) =>
               max_lang_len(last.val) >= 2

\* A list whose one record has no language: the language column is 0 wide,
\* "-" is longer, and the build with overflow checks panics at lang_width - 2
C30_Panic ==
    /\ Panicked
    /\ cfg.overflow_checks
    /\ Len(last.val) = 1
    /\ last.val[1].language = None
    /\ max_lang_len(last.val) = 0
    /\ log = <<>>

\* The same list in the build without overflow checks: the wrapped width takes
\* the whole label and the column reads "-.."
C30_Wrapped ==
    /\ mpc = "rendered"
    /\ ~cfg.overflow_checks
    /\ Len(last.val) = 1
    /\ last.val[1].language = None
    /\ log[1].lang = s_dash \o s_dots

\* The name column: a name is truncated only when the width is the cap of 40
C30_NameWidth ==
    \A i \in Rendered :
        Len(last.val[i].name) > max_name_len(last.val) => max_name_len(last.val) = NameCap

=============================================================================
